---- MODULE Spec2Model ----
(***************************************************************************)
(* Model of the HTTP request-handling engine of MultiWikiServer:           *)
(*   - Streamer (packages/server/src/streamer.ts): the per-request facade  *)
(*     over the node request/response pair;                                *)
(*   - Streamer.parseRequest: prefix handling and host normalisation;      *)
(*   - the Streamer constructor: merging and decoding of path parameters.  *)
(* The node response object is modelled by the Res* operators: they state  *)
(* what http.ServerResponse / http2.Http2ServerResponse do when the        *)
(* Streamer calls them.                                                    *)
(***************************************************************************)
EXTENDS Integers, Sequences, FiniteSets, TLC

\* ------------------------------------------------------------------ bounds
\* number of Streamer calls and stream events of one request
MaxOps == 3
\* longest raw url, longest listener prefix
MaxUrlLen == 4
MaxPrefixLen == 3
\* longest regex capture, deepest route path
MaxCapLen == 3
MaxRoutes == 2

\* ------------------------------------------------------------- basic values
Undefined == "undefined"
STREAM_ENDED == "STREAM_ENDED"

\* header objects map a name to its list of values
EmptyHeaders == [k \in {} |-> << >>]
Header(k, v) == [n \in {k} |-> << v >>]

\* Object.assign-like merge of header objects: g wins over f.
Merge(f, g) == [k \in (DOMAIN f) \cup (DOMAIN g) |-> IF k \in DOMAIN g THEN g[k] ELSE f[k]]

\* header objects a handler may pass
HeaderInputs == { EmptyHeaders, Header("etag", "v1") }
StatusInputs == { 200, 404 }
Methods == { "GET", "HEAD" }

\* ---------------------------------------------------------------- variables
VARIABLES
  method,            \* Streamer.method (req.method)
  httpVersionMajor,  \* req.httpVersionMajor
  res,               \* the underlying response (#res)
  wire,              \* what the response has put on the connection, in order
  headersSentBy,     \* Streamer.headersSentBy: which Error was recorded
  resWriteHeadCalls, \* number of times #res.writeHead was invoked
  pipes,             \* sources piped into the writer and still flowing
  sse,               \* the handle returned by sendSSE, if any
  fileSender,        \* the `send` stream started by sendFile
  call,              \* the last Streamer call and how it came out
  nOps,              \* calls and stream events so far
  req,               \* the raw request: url, headers
  pathPrefix,        \* the listener's path prefix
  parsed,            \* what Streamer.parseRequest produced
  routePath,         \* the RouteMatch list the request matched
  state,             \* the fields the Streamer constructor sets
  rootRoute,         \* the route tree: what each node's tests give for this request
  incoming,          \* the request's X-Requested-With header and its body
  dispatch,          \* the router's progress with this request
  exiting,           \* index.ts: let exiting
  exitTimer,         \* the forced-exit timers exiter has armed
  process,           \* the node process: alive, exit code, console
  bus,               \* serverEvents: the "exit" listeners and the emitAsync under way
  servers,           \* the http(s) server of each listener
  signals,           \* signals received so far
  multipart,         \* a readMultipartData call: the request's body and the callbacks
  negotiation,       \* an acceptsEncoding call: Accept-Encoding, the whitelist, the result
  payload,           \* the body a handler is about to send with sendString / sendBuffer
  startup,           \* a startListening call: its options, the listeners it has made
  jar,               \* the setCookie calls made on the response, in order
  bodyRead,          \* a readBuffer call: the request stream and the promise
  admin,             \* a sendAdmin call: the serveIndex calls it has started
  registration       \* the listen.router.init handler: events emitted, routes, middleware

\* the variables of the response side, and those of parsing and construction
responseVars == << headersSentBy, resWriteHeadCalls, pipes, sse, fileSender, call, nOps >>
requestVars == << req, pathPrefix, parsed, routePath, state >>
routerVars == << rootRoute, incoming, dispatch >>
exitVars == << exiting, exitTimer, process, bus, servers, signals >>
readerVars == << multipart, negotiation, payload >>
setupVars == << startup, jar, bodyRead, admin, registration >>

vars == << method, httpVersionMajor, res, wire, headersSentBy, resWriteHeadCalls,
           pipes, sse, fileSender, call, nOps, req, pathPrefix, parsed, routePath, state,
           rootRoute, incoming, dispatch,
           exiting, exitTimer, process, bus, servers, signals, multipart, negotiation, payload,
           startup, jar, bodyRead, admin, registration >>

\* no router is involved: no tree, no dispatch under way
NoRoutes == << >>
NoIncoming == [ requestedWith |-> << >>, body |-> "empty" ]
Idle == [ phase |-> "idle", matched |-> << >>, bodyFormat |-> "ignore", readerRead |-> FALSE,
          hasData |-> FALSE, invoked |-> << >>, results |-> << >>, error |-> << >>,
          sentAtThrow |-> FALSE, wireAtThrow |-> << >>, recovery |-> "none",
          rethrown |-> FALSE, outcome |-> "pending" ]
RouterIdle ==
  /\ rootRoute = NoRoutes
  /\ incoming = NoIncoming
  /\ dispatch = Idle

\* a process that is running and has not been asked to exit: no listener is
\* looked at, no signal has arrived
NoTimer == [ armed |-> 0, ref |-> FALSE, fired |-> FALSE ]
Running == [ alive |-> TRUE, code |-> 0, forced |-> FALSE, lingering |-> FALSE, log |-> << >> ]
NoEmit == [ status |-> "idle", queue |-> << >>, invoked |-> << >>, pending |-> { },
            errors |-> << >> ]
NoBus == [ handlers |-> << >>, emits |-> 0, emit |-> NoEmit ]
NoServers == << >>
ProcessIdle ==
  /\ exiting = FALSE
  /\ exitTimer = NoTimer
  /\ process = Running
  /\ bus = NoBus
  /\ servers = NoServers
  /\ signals = 0

\* no body is being read, no encoding is being negotiated
NoMultipart ==
  [ phase |-> "idle", contentType |-> << >>, parts |-> << >>, unread |-> << >>,
    buffered |-> << >>, reads |-> 0, pending |-> { }, awaited |-> { },
    calls |-> << >>, error |-> [ name |-> "", status |-> 0 ] ]
NoNegotiation ==
  [ phase |-> "idle", accept |-> [ enc \in { "br", "gzip", "deflate", "identity" } |-> "none" ],
    whitelist |-> << >>, result |-> "none" ]
NoPayload ==
  [ kind |-> "none", status |-> 200, lengthGiven |-> FALSE, data |-> << >>, encoding |-> "utf8" ]
ReaderIdle ==
  /\ multipart = NoMultipart
  /\ negotiation = NoNegotiation
  /\ payload = NoPayload

\* nothing is starting up, no cookie is set, no body is read, nothing registered
NoStartup ==
  [ phase |-> "idle", by |-> "none", options |-> << >>, envPort |-> << >>, threw |-> "none", made |-> << >>,
    stderr |-> << >>, exitCode |-> << >>, uncaught |-> << >>, error |-> << >> ]
NoJar == [ calls |-> << >>, header |-> [ kind |-> "none", values |-> << >> ] ]
NoBodyRead ==
  [ called |-> FALSE, arrived |-> << >>, chunks |-> << >>, ended |-> FALSE, closed |-> FALSE,
    lost |-> "none", promise |-> "none", value |-> << >> ]
NoRegistration ==
  [ phase |-> "idle", listeners |-> << 0, 0, 0, 0 >>, devserver |-> FALSE, installed |-> { },
    step |-> 0, invoked |-> 0, pending |-> FALSE, errors |-> 0, status |-> "none",
    log |-> << >>, children |-> << >> ]
NoAdmin ==
  [ sender |-> "none", indexOptions |-> << >>, jobs |-> << >>, proxy |-> "none",
    served |-> << >>, failed |-> 0 ]
SetupIdle ==
  /\ startup = NoStartup
  /\ jar = NoJar
  /\ bodyRead = NoBodyRead
  /\ admin = NoAdmin
  /\ registration = NoRegistration

\* ------------------------------------------------- the evaluation environment
\* A Streamer method is a sequence of statements over the response, the
\* Streamer's fields and the console; `threw` cuts the sequence short.
Env == [ res |-> res, wire |-> wire, by |-> headersSentBy,
         calls |-> resWriteHeadCalls, pipes |-> pipes, sse |-> sse,
         log |-> << >>, threw |-> FALSE ]

NoPipes == [ending |-> 0, open |-> 0, file |-> 0, destroyed |-> 0, read |-> 0]

Throw(e) == [e EXCEPT !.threw = TRUE]

\* --------------------------------------------------- node's response object
\* res.setHeader(k, v) for every entry of `headers`: ERR_HTTP_HEADERS_SENT /
\* ERR_HTTP2_HEADERS_SENT once the head has been sent.
ResSetHeaders(e, headers) ==
  IF e.threw \/ DOMAIN headers = {} THEN e
  ELSE IF e.res.headersSent THEN Throw(e)
  ELSE [e EXCEPT !.res.headers = Merge(@, headers)]

\* res.appendHeader(k, v) for every entry of `headers`
ResAppendHeaders(e, headers) ==
  IF e.threw \/ DOMAIN headers = {} THEN e
  ELSE IF e.res.headersSent THEN Throw(e)
  ELSE [e EXCEPT !.res.headers =
          [k \in (DOMAIN @) \cup (DOMAIN headers) |->
             IF k \in DOMAIN headers
             THEN (IF k \in DOMAIN @ THEN @[k] ELSE << >>) \o headers[k]
             ELSE @[k]]]

\* the head leaves: status line and the merged headers
ResFlushHead(e, status, headers) ==
  [e EXCEPT !.res.headersSent = TRUE,
            !.res.statusCode = status,
            !.res.headers = Merge(@, headers),
            !.wire = Append(@, << "head", status >>)]

\* a response that accepts a head after the head (mutant of ResWriteHead)
ResWriteHeadSkipGuard(e, status, headers) ==
  IF e.threw THEN e
  ELSE LET c == [e EXCEPT !.calls = @ + 1] IN
       IF httpVersionMajor > 1 /\ c.res.closed THEN c
       ELSE ResFlushHead(c, status, headers)

\* res.writeHead(status, headers).  http2 compat returns silently on a closed
\* stream; otherwise a second head is refused with ERR_HTTP(2)_HEADERS_SENT.
ResWriteHead(e, status, headers) ==
  IF e.threw THEN e
  ELSE LET c == [e EXCEPT !.calls = @ + 1] IN
       IF httpVersionMajor > 1 /\ c.res.closed THEN c
       ELSE IF c.res.headersSent THEN Throw(c)
       ELSE ResFlushHead(c, status, headers)

\* a writer that sends no implicit head (mutant of ResImplicitHead)
ResNoImplicitHead(e) == e

\* the implicit head node sends before the first body byte or the end
ResImplicitHead(e) ==
  IF e.res.headersSent THEN e ELSE ResFlushHead(e, e.res.statusCode, EmptyHeaders)

\* a response to HEAD and a 204 or 304 response have no body: node drops
\* what is written to them
HasBody(e) == method # "HEAD" /\ e.res.statusCode \notin { 204, 304 }

\* res.write(chunk) with a non-empty chunk.  After end: write-after-end error,
\* nothing is written.
ResWrite(e, tag) ==
  IF e.threw THEN e
  ELSE IF e.res.writableEnded \/ e.res.closed THEN e
  ELSE LET h == ResImplicitHead(e) IN
       IF ~HasBody(h) THEN h
       ELSE [h EXCEPT !.wire = Append(@, << "body", tag >>)]

\* res.end(data?)
ResEnd(e, hasData, tag) ==
  IF e.threw THEN e
  ELSE IF e.res.writableEnded \/ e.res.closed THEN e
  ELSE LET h == ResImplicitHead(e)
           b == IF hasData /\ HasBody(h)
                THEN [h EXCEPT !.wire = Append(@, << "body", tag >>)] ELSE h
       IN [b EXCEPT !.res.writableEnded = TRUE, !.wire = Append(@, << "fin" >>)]

\* res.end(data) with the bytes of data: one entry on the wire for each
ResEndData(e, bytes, tag) ==
  IF e.threw THEN e
  ELSE IF e.res.writableEnded \/ e.res.closed THEN e
  ELSE LET h == ResImplicitHead(e)
           b == IF HasBody(h)
                THEN [h EXCEPT !.wire = @ \o [ i \in 1 .. Len(bytes) |-> << "body", tag >> ]]
                ELSE h
       IN [b EXCEPT !.res.writableEnded = TRUE, !.wire = Append(@, << "fin" >>)]

\* ------------------------------------------------------------------ Buffer
\* characters: ASCII "a", U+00E9, U+20AC; a byte is written "b"
Characters == { "a", "e-acute", "euro" }
BufferEncodings == { "utf8", "latin1", "utf16le" }
Text(n) == [ i \in 1 .. n |-> "a" ]
Bytes(n) == [ i \in 1 .. n |-> "b" ]

\* the bytes one character takes in an encoding
CharLength(ch, encoding) ==
  CASE encoding = "latin1" -> 1
    [] encoding = "utf16le" -> 2
    [] encoding = "utf8" -> IF ch = "a" THEN 1 ELSE IF ch = "e-acute" THEN 2 ELSE 3

\* Buffer.byteLength(data, encoding): summed over the string
RECURSIVE byteLength(_, _)
byteLength(data, encoding) ==
  IF data = << >> THEN 0
  ELSE CharLength(Head(data), encoding) + byteLength(Tail(data), encoding)

\* Buffer.from(data, encoding), what end(data, encoding) writes
RECURSIVE BufferFrom(_, _)
BufferFrom(data, encoding) ==
  IF data = << >> THEN << >>
  ELSE Bytes(CharLength(Head(data), encoding)) \o BufferFrom(Tail(data), encoding)

\* ------------------------------------------------------------ the Streamer
\* get writer(): records a possible culprit, then hands out the response
\* (the compressor is never constructed, so the writer is #res itself).
writer(e) ==
  IF e.threw THEN e
  ELSE IF ~e.res.headersSent /\ e.by = Undefined
       THEN [e EXCEPT !.by = "writerAccess"] ELSE e

\* a check that never records the call site (mutant of checkHeadersSentBy)
checkHeadersSentByNoRecord(e) ==
  IF e.threw THEN e
  ELSE IF e.res.headersSent /\ e.by # Undefined
       THEN [e EXCEPT !.log = @ \o << << "headersSentBy", e.by >>, << "secondAttempt" >> >>]
  ELSE IF e.res.headersSent
       THEN [e EXCEPT !.log = Append(@, << "unknownSource" >>)]
  ELSE e

\* checkHeadersSentBy: logs on a second attempt, records the site otherwise.
checkHeadersSentBy(e) ==
  IF e.threw THEN e
  ELSE IF e.res.headersSent /\ e.by # Undefined
       THEN [e EXCEPT !.log = @ \o << << "headersSentBy", e.by >>, << "secondAttempt" >> >>]
  ELSE IF e.res.headersSent
       THEN [e EXCEPT !.log = Append(@, << "unknownSource" >>)]
  ELSE [e EXCEPT !.by = "firstAttempt"]

\* writeHead(status, headers)
writeHead(e, status, headers) ==
  ResWriteHead(ResSetHeaders(checkHeadersSentBy(e), headers), status, headers)

\* a sendEmpty that forgets writer.end() (mutant of sendEmpty)
sendEmptyNoEnd(e, status, headers) == writeHead(e, status, headers)

\* sendEmpty(status, headers)
sendEmpty(e, status, headers) ==
  ResEnd(writer(writeHead(e, status, headers)), FALSE, "")

\* a sendString that takes the string's length for its byte length
sendStringCharCount(e, status, headers, data, encoding) ==
  LET h == writeHead(e, status, Merge(headers, Header("content-length", Len(data)))) IN
  IF method = "HEAD" THEN ResEnd(writer(h), FALSE, "")
  ELSE ResEndData(writer(h), BufferFrom(data, encoding), "string")

\* sendString(status, headers, data, encoding)
sendString(e, status, headers, data, encoding) ==
  LET h == writeHead(e, status,
                     Merge(headers, Header("content-length", byteLength(data, encoding)))) IN
  IF method = "HEAD" THEN ResEnd(writer(h), FALSE, "")
  ELSE ResEndData(writer(h), BufferFrom(data, encoding), "string")

\* sendBuffer(status, headers, data); data is the buffer's bytes
sendBuffer(e, status, headers, data) ==
  LET h == writeHead(e, status, Merge(headers, Header("content-length", Len(data)))) IN
  IF method = "HEAD" THEN ResEnd(writer(h), FALSE, "")
  ELSE ResEndData(writer(h), data, "buffer")

\* stream.pipe(dest, {end}): the source starts flowing into dest
Pipe(e, kind) ==
  IF e.threw THEN e ELSE [e EXCEPT !.pipes[kind] = @ + 1]

\* stream.destroy(): the source will emit no data and no end
Destroy(e) ==
  IF e.threw THEN e ELSE [e EXCEPT !.pipes.destroyed = @ + 1]

\* a sendStream that leaves the source alone on HEAD
sendStreamKeepSource(e, status, headers) ==
  LET h == writeHead(e, status, headers) IN
  IF method = "HEAD" THEN ResEnd(writer(h), FALSE, "")
  ELSE Pipe(writer(h), "ending")

\* sendStream(status, headers, stream)
sendStream(e, status, headers) ==
  LET h == writeHead(e, status, headers) IN
  IF method = "HEAD" THEN ResEnd(writer(Destroy(h)), FALSE, "")
  ELSE Pipe(writer(h), "ending")

\* pipeFrom(stream)
pipeFrom(e) == Pipe(writer(e), "open")

\* write(chunk, encoding), chunk not empty
write(e) == ResWrite(writer(e), "chunk")

\* end()
end(e) == ResEnd(writer(e), FALSE, "")

\* sendSimple / sendJSON / redirect
sendSimple(e, status, len) ==
  sendString(e, status, Header("content-type", "text/plain"), Text(len), "utf8")
sendJSON(e, status, len) ==
  sendString(e, status, Header("content-type", "application/json"), Text(len), "utf8")
redirect(e, location) == sendEmpty(e, 302, Header("Location", location))

\* the headers sendSSE writes
SSEHeaders ==
  [k \in {"content-type", "cache-control", "content-encoding", "connection", "x-accel-buffering"} |->
     CASE k = "content-type" -> << "text/event-stream" >>
       [] k = "cache-control" -> << "no-cache, max-age=0" >>
       [] k = "content-encoding" -> << "identity" >>
       [] k = "connection" -> << "keep-alive" >>
       [] k = "x-accel-buffering" -> << "no" >>]

\* JavaScript values as far as sendSSE looks at them: a string is its
\* characters, a number is the fraction num/den
String(chars) == [ type |-> "string", chars |-> chars, num |-> 0, den |-> 1 ]
Number(num, den) == [ type |-> "number", chars |-> << >>, num |-> num, den |-> den ]
includes(str, ch) == \E i \in 1 .. Len(str.chars) : str.chars[i] = ch
\* `x && ...` on a string or a number
truthy(x) == IF x.type = "string" THEN x.chars # << >> ELSE x.num # 0

\* JSON.stringify(eventData): a value with a cycle throws, anything else comes
\* out as one line of text
JSONstringify(data) == IF data = "circular" THEN "TypeError" ELSE << "JSON", data >>

\* what this.writer.write(chunk) does for the handle: the response takes the
\* chunk unless it has ended
SseWrite(e, chunk) ==
  LET w == ResWrite(writer(e), chunk) IN
  IF e.threw \/ e.res.writableEnded \/ e.res.closed THEN w
  ELSE [w EXCEPT !.sse.written = Append(@, chunk)]

\* a chunk is its lines; the three chunks sendSSE writes after the head are two
\* comment lines and an empty line
Preamble == << << << "comment", "This page is a server-sent event stream." >> >>,
               << << "comment", "https://html.spec.whatwg.org/" >> >>,
               << << >> >> >>

\* sendSSE(retryMilliseconds): retry is << >> (undefined) or << value >>.  The
\* handle it returns is e.sse: its retry, and what the response has taken from it.
sendSSE(e, retry) ==
  IF retry # << >> /\ (retry[1].type # "number" \/ retry[1].num < 0) THEN Throw(e)
  ELSE LET h  == writeHead(e, 200, SSEHeaders)
           o  == IF h.threw THEN h
                 ELSE [h EXCEPT !.sse = [ active |-> TRUE, retry |-> retry, written |-> << >>,
                                          emitted |-> << >>, exitListener |-> FALSE,
                                          closedBy |-> "none", finished |-> FALSE,
                                          disconnected |-> FALSE ]]
           w1 == SseWrite(o, Preamble[1])
           w2 == SseWrite(w1, Preamble[2])
           w3 == SseWrite(w2, Preamble[3])
       IN IF w3.threw THEN w3 ELSE [w3 EXCEPT !.sse.exitListener = TRUE]

\* the chunk emitEvent writes: the fields that are set, one per line, joined
\* by "\n" and followed by "\n\n" (the last line ends, then an empty line)
EventFrame(retry, eventName, eventData, eventId) ==
  (IF truthy(eventName) THEN << << "event", eventName.chars >> >> ELSE << >>)
  \o << << "data", JSONstringify(eventData) >> >>
  \o (IF truthy(eventId) THEN << << "id", eventId.chars >> >> ELSE << >>)
  \o (IF retry # << >> /\ truthy(retry[1]) THEN << << "retry", retry[1] >> >> ELSE << >>)
  \o << << >> >>

\* an emitEvent that writes before it looks at its arguments (mutant of emitEvent)
emitEventUnchecked(e, eventName, eventData, eventId) ==
  LET w == SseWrite(e, EventFrame(e.sse.retry, eventName, "payload", eventId)) IN
  IF eventName.type # "string" \/ includes(eventName, "\n")
     \/ eventId.type # "string" \/ includes(eventId, "\n")
     \/ JSONstringify(eventData) = "TypeError"
  THEN Throw(w) ELSE w

\* handle.emitEvent(eventName, eventData, eventId)
emitEvent(e, eventName, eventData, eventId) ==
  IF eventName.type # "string" THEN Throw(e)
  ELSE IF includes(eventName, "\n") THEN Throw(e)
  ELSE IF eventId.type # "string" THEN Throw(e)
  ELSE IF includes(eventId, "\n") THEN Throw(e)
  ELSE LET w == writer(e) IN
       IF w.res.writableEnded THEN Throw(w)
       ELSE IF JSONstringify(eventData) = "TypeError" THEN Throw(w)
       ELSE SseWrite(w, EventFrame(e.sse.retry, eventName, eventData, eventId))

\* handle.emitComment(comment)
emitComment(e, comment) == SseWrite(e, << << "comment", comment >>, << >> >>)

\* a close that leaves the response open (mutant of close)
closeLeavesOpen(e) == writer(e)

\* handle.close(), which is also the listener of the "exit" event
close(e) == ResEnd(writer(e), FALSE, "")

\* sendFile(status, headers, options), up to sender.pipe(res)
sendFile(e, status, headers, prefixOrSuffix) ==
  LET st == [e EXCEPT !.res.statusCode = status]
      ap == ResAppendHeaders(st, headers)
  IN IF prefixOrSuffix /\ ~ap.threw THEN Throw(ap)
     ELSE checkHeadersSentBy(ap)

\* ------------------------------------------------------------------ strings
\* Strings the code inspects are sequences of one-character strings.
RECURSIVE SeqsUpTo(_, _)
SeqsUpTo(A, n) ==
  IF n = 0 THEN { << >> }
  ELSE LET shorter == SeqsUpTo(A, n - 1)
       IN shorter \cup { Append(t, a) : t \in { u \in shorter : Len(u) = n - 1 }, a \in A }

\* String.prototype.startsWith / slice(n)
StartsWith(s, p) == Len(p) <= Len(s) /\ SubSeq(s, 1, Len(p)) = p
Slice(s, n) == SubSeq(s, n + 1, Len(s))

\* index of the first element of s that is in D, Len(s) + 1 if there is none
FirstIdx(s, D) ==
  IF \E i \in 1..Len(s) : s[i] \in D
  THEN CHOOSE i \in 1..Len(s) : s[i] \in D /\ \A j \in 1..(i - 1) : s[j] \notin D
  ELSE Len(s) + 1

\* An optional value: << >> is undefined, << v >> is v.
Some(v) == << v >>
None == << >>

\* decodeURIComponent over the characters % 2 5 F x: %22 %25 %2F %52 %55 %5F
\* decode to one ASCII character; %F2, %F5, %FF open a multi-byte sequence that
\* no continuation byte (%80..%BF) can follow here; anything else after % is
\* malformed.  ok = FALSE stands for the URIError.
HexPairs ==
  [p \in { <<"2","2">>, <<"2","5">>, <<"2","F">>, <<"5","2">>, <<"5","5">>, <<"5","F">> } |->
     CASE p = <<"2","2">> -> "\""
       [] p = <<"2","5">> -> "%"
       [] p = <<"2","F">> -> "/"
       [] p = <<"5","2">> -> "R"
       [] p = <<"5","5">> -> "U"
       [] p = <<"5","F">> -> "_"]

RECURSIVE decodeURIComponent(_)
decodeURIComponent(s) ==
  IF s = << >> THEN [ok |-> TRUE, val |-> << >>]
  ELSE IF Head(s) # "%"
       THEN LET r == decodeURIComponent(Tail(s))
            IN [ok |-> r.ok, val |-> IF r.ok THEN << Head(s) >> \o r.val ELSE << >>]
  ELSE IF Len(s) < 3 \/ << s[2], s[3] >> \notin DOMAIN HexPairs
       THEN [ok |-> FALSE, val |-> << >>]
  ELSE LET r == decodeURIComponent(SubSeq(s, 4, Len(s)))
       IN [ok |-> r.ok, val |-> IF r.ok THEN << HexPairs[<< s[2], s[3] >>] >> \o r.val ELSE << >>]

\* zodDecodeURIComponent(arg, ctx): the decoded string, or a zod issue (ok = FALSE)
zodDecodeURIComponent(arg) == decodeURIComponent(arg)

\* ------------------------------------------------------------ listener options
\* listenOptionsCheck on prefix: falsy, or starts with "/" and does not end with "/"
listenOptionsCheck(prefix) ==
  /\ (prefix = << >> \/ Head(prefix) = "/")
  /\ (prefix = << >> \/ prefix[Len(prefix)] # "/")

\* ---------------------------------------------------------------- parseRequest
\* new URL("https://" + host + url): the authority runs up to the first / or ?
URLParse(host, url) ==
  LET s == host \o url
      a == FirstIdx(s, {"/", "?"})
      rest == Slice(s, a - 1)
      q == FirstIdx(rest, {"?"})
  IN [ ok |-> a > 1,
       host |-> SubSeq(s, 1, a - 1),
       pathname |-> IF q = 1 THEN << "/" >> ELSE SubSeq(rest, 1, q - 1),
       search |-> IF q >= Len(rest) THEN << >> ELSE Slice(rest, q - 1) ]

\* parseCookieString over the key=value parts of the cookie header
parseCookieString(parts) ==
  [ ok |-> \A i \in 1..Len(parts) : decodeURIComponent(parts[i][2]).ok,
    cookies |-> [ i \in 1..Len(parts) |-> << parts[i][1], decodeURIComponent(parts[i][2]).val >> ] ]

NotParsed ==
  [ outcome |-> "pending", url |-> << >>, host |-> << >>, method |-> "",
    headersHost |-> None, cookies |-> << >>,
    urlInfo |-> [ok |-> FALSE, host |-> << >>, pathname |-> << >>, search |-> << >>] ]

Thrown(e, what) == [ env |-> e, out |-> [NotParsed EXCEPT !.outcome = what] ]

OutsidePrefixMessage(prefix) ==
  << "The server is setup with a path prefix " >> \o prefix
     \o << ", but this request is outside of that prefix." >>

\* a host that ignores the HTTP/2 pseudo-header (mutant of HostHeader)
HostHeaderNoShim(r) == r.host

\* req.headers.host, which an HTTP/2 request takes from :authority
HostHeader(r) == IF httpVersionMajor > 1 THEN r.authority ELSE r.host

\* what parseRequest does once the prefix has been dealt with; url is stripped
parseRequestRest(e, r, url) ==
  LET hostHeader == HostHeader(r)
      host == IF hostHeader = None THEN << >> ELSE hostHeader[1]
      ck == parseCookieString(r.cookie)
      info == URLParse(host, url)
  IN IF host = << >> THEN Thrown(e, "Error")
     ELSE IF method = "" THEN Thrown(e, "Error")
     ELSE IF ~ck.ok THEN Thrown(e, "URIError")
     ELSE IF ~info.ok THEN Thrown(e, "TypeError")
     ELSE [ env |-> e,
            out |-> [ outcome |-> "returned", url |-> url, host |-> host, method |-> method,
                      headersHost |-> hostHeader, cookies |-> ck.cookies, urlInfo |-> info ] ]

\* a prefix test that looks for the prefix anywhere in the url
UnderPrefixIncludes(url, prefix) ==
  \E i \in 0..(Len(url) - Len(prefix)) : SubSeq(url, i + 1, i + Len(prefix)) = prefix

\* url.startsWith(pathPrefix)
UnderPrefix(url, prefix) == StartsWith(url, prefix)

\* a redirect to the url itself (mutant of RedirectLocation)
RedirectLocationSame(url) == url

\* req.url + "/"
RedirectLocation(url) == url \o << "/" >>

\* Streamer.parseRequest(req, res, pathPrefix, expectSecure)
parseRequest(e, r, prefix) ==
  IF ~StartsWith(r.url, << "/" >>) THEN Thrown(e, "Error")
  ELSE IF prefix # << >> /\ r.url = prefix
       THEN Thrown(ResEnd(ResWriteHead(e, 302, Header("location", RedirectLocation(r.url))), FALSE, ""),
                   STREAM_ENDED)
  ELSE IF prefix # << >> /\ UnderPrefix(r.url, prefix)
       THEN parseRequestRest(e, r, Slice(r.url, Len(prefix)))
  ELSE IF prefix # << >>
       THEN Thrown(ResEnd(ResWriteHead(e, 500, EmptyHeaders), TRUE, OutsidePrefixMessage(prefix)),
                   STREAM_ENDED)
  ELSE parseRequestRest(e, r, r.url)

\* ------------------------------------------------------ the Streamer constructor
\* routePath.reduce((n, e) => Object.assign(n, e.groups), {})
\* a merge in which the outermost route wins (mutant of reduceGroups)
RECURSIVE reduceGroupsFirstWins(_, _)
reduceGroupsFirstWins(n, path) ==
  IF path = << >> THEN n ELSE reduceGroupsFirstWins(Merge(Head(path), n), Tail(path))

RECURSIVE reduceGroups(_, _)
reduceGroups(n, path) ==
  IF path = << >> THEN n ELSE reduceGroups(Merge(n, Head(path)), Tail(path))

\* zod.record(zod.string(), zod.string().transform(zodDecodeURIComponent).optional())
\*   .safeParse(pathParams)
pathParamsZodCheck(params) ==
  [ success |-> \A k \in DOMAIN params : params[k] = None \/ zodDecodeURIComponent(params[k][1]).ok,
    data |-> [ k \in DOMAIN params |->
                 IF params[k] = None THEN None
                 ELSE Some(zodDecodeURIComponent(params[k][1]).val) ] ]

\* the search parameters of the alphabet / a ?: one key, no value
queryParamsOf(search) ==
  IF Len(search) <= 1 THEN << >> ELSE << << Slice(search, 1), << << >> >> >> >>

NotBuilt ==
  [ built |-> FALSE, url |-> << >>, host |-> << >>, method |-> "", pathPrefix |-> << >>,
    pathParams |-> EmptyHeaders, queryParams |-> << >>, bugLogged |-> FALSE ]

\* new Streamer(request, routePath, bodyFormat)
constructor(request, path) ==
  LET raw == reduceGroups(EmptyHeaders, path)
      check == pathParamsZodCheck(raw)
  IN [ built |-> TRUE, url |-> request.url, host |-> request.host, method |-> request.method,
       pathPrefix |-> pathPrefix,
       pathParams |-> IF check.success THEN check.data ELSE raw,
       queryParams |-> queryParamsOf(request.urlInfo.search),
       bugLogged |-> ~check.success ]

\* ------------------------------------------------------- Streamer: actions
NoCall == [ op |-> "none", ret |-> "none", sentBefore |-> FALSE, endedBefore |-> FALSE,
            closedBefore |-> FALSE, resWriteHead |-> FALSE, headersChanged |-> FALSE,
            log |-> << >> ]
NoSSE == [ active |-> FALSE, retry |-> << >>, written |-> << >>, emitted |-> << >>,
           exitListener |-> FALSE, closedBy |-> "none", finished |-> FALSE,
           disconnected |-> FALSE ]
RetryInputs == { << >>, << Number(-1, 1) >>, << Number(0, 1) >>, << Number(1000, 1) >>,
                 << Number(3, 2) >>, << String(<< "5" >>) >> }
\* arguments of emitEvent: two that pass, and one for every way of failing
EventInputs ==
  { [ eventName |-> String(<< "a" >>), eventData |-> "payload", eventId |-> String(<< "1" >>) ],
    [ eventName |-> String(<< >>), eventData |-> "payload", eventId |-> String(<< >>) ],
    [ eventName |-> Number(5, 1), eventData |-> "payload", eventId |-> String(<< "1" >>) ],
    [ eventName |-> String(<< "a", "\n" >>), eventData |-> "payload", eventId |-> String(<< "1" >>) ],
    [ eventName |-> String(<< "a" >>), eventData |-> "payload", eventId |-> Number(1, 1) ],
    [ eventName |-> String(<< "a" >>), eventData |-> "payload", eventId |-> String(<< "\n" >>) ],
    [ eventName |-> String(<< "a" >>), eventData |-> "circular", eventId |-> String(<< "1" >>) ] }
\* pending `send` streams, counted per (on404 given, onDir given)
SenderKinds == BOOLEAN \X BOOLEAN
\* pending / rejected / resolved count the promises sendFile returned; the only
\* resolve is the listener of the response's "end" event, an event a server
\* response does not emit (it emits "finish" and "close")
NoFile == [ waiting |-> [ k \in SenderKinds |-> 0 ], events |-> 0, event |-> "none",
            kind |-> << FALSE, FALSE >>, pending |-> 0, rejected |-> 0, resolved |-> 0 ]

\* the sender of kind k emits an event; failed: its listener threw, which
\* caughtPromise hands to the reject of sendFile's promise
SenderEmits(k, event, failed) ==
  fileSender' = [ fileSender EXCEPT !.waiting[k] = IF event = "stream.error" THEN @ ELSE @ - 1,
                                    !.events = @ + 1,
                                    !.event = event,
                                    !.kind = k,
                                    !.pending = IF failed /\ @ > 0 THEN @ - 1 ELSE @,
                                    !.rejected = IF failed /\ fileSender.pending > 0
                                                 THEN @ + 1 ELSE @ ]

\* a request that parses: GET / with a host
SampleReq == [ url |-> << "/" >>, host |-> Some(<< "h" >>), authority |-> Some(<< "h" >>),
               cookie |-> << >> ]

FreshRes == [ headersSent |-> FALSE, statusCode |-> 200, headers |-> EmptyHeaders,
              writableEnded |-> FALSE, closed |-> FALSE ]

InitStreamer ==
  /\ method \in Methods
  /\ httpVersionMajor \in {1, 2}
  /\ res = FreshRes
  /\ wire = << >>
  /\ headersSentBy = Undefined
  /\ resWriteHeadCalls = 0
  /\ pipes = NoPipes
  /\ sse = NoSSE
  /\ fileSender = NoFile
  /\ call = NoCall
  /\ nOps = 0
  /\ req = SampleReq
  /\ pathPrefix = << >>
  /\ parsed = parseRequest(Env, SampleReq, << >>).out
  /\ routePath = << >>
  /\ state = constructor(parsed, routePath)
  /\ RouterIdle
  /\ ProcessIdle
  /\ ReaderIdle
  /\ SetupIdle

\* the state after a call that evaluated to e; r is what it returns
Apply(e, op, r) ==
  /\ res' = e.res
  /\ wire' = e.wire
  /\ headersSentBy' = e.by
  /\ resWriteHeadCalls' = e.calls
  /\ pipes' = e.pipes
  /\ call' = [ op |-> op, ret |-> IF e.threw THEN "threw" ELSE r,
               sentBefore |-> res.headersSent, endedBefore |-> res.writableEnded,
               closedBefore |-> res.closed,
               resWriteHead |-> e.calls > resWriteHeadCalls,
               headersChanged |-> e.res.headers # res.headers,
               log |-> e.log ]

\* the same for a call of a handler, which counts against the budget of calls
Commit(e, op, r) ==
  /\ Apply(e, op, r)
  /\ UNCHANGED requestVars
  /\ UNCHANGED routerVars
  /\ UNCHANGED exitVars
  /\ UNCHANGED readerVars
  /\ UNCHANGED setupVars
  /\ nOps' = nOps + 1

Budget == nOps < MaxOps

WriteHead ==
  /\ Budget
  /\ \E status \in StatusInputs, headers \in HeaderInputs :
       Commit(writeHead(Env, status, headers), "writeHead", "void")
  /\ UNCHANGED << method, httpVersionMajor, sse, fileSender >>

SendEmpty ==
  /\ Budget
  /\ \E status \in StatusInputs, headers \in HeaderInputs :
       Commit(sendEmpty(Env, status, headers), "sendEmpty", STREAM_ENDED)
  /\ UNCHANGED << method, httpVersionMajor, sse, fileSender >>

SendString ==
  /\ Budget
  /\ \E status \in {200}, headers \in HeaderInputs, len \in {0, 1} :
       Commit(sendString(Env, status, headers, Text(len), "utf8"), "sendString", STREAM_ENDED)
  /\ UNCHANGED << method, httpVersionMajor, sse, fileSender >>

SendBuffer ==
  /\ Budget
  /\ \E status \in {200}, headers \in HeaderInputs, len \in {0, 1} :
       Commit(sendBuffer(Env, status, headers, Bytes(len)), "sendBuffer", STREAM_ENDED)
  /\ UNCHANGED << method, httpVersionMajor, sse, fileSender >>

SendStream ==
  /\ Budget
  /\ \E status \in {200}, headers \in HeaderInputs :
       Commit(sendStream(Env, status, headers), "sendStream", STREAM_ENDED)
  /\ UNCHANGED << method, httpVersionMajor, sse, fileSender >>

SendSimple ==
  /\ Budget
  /\ \E status \in {200}, len \in {0, 1} :
       Commit(sendSimple(Env, status, len), "sendSimple", STREAM_ENDED)
  /\ UNCHANGED << method, httpVersionMajor, sse, fileSender >>

SendJSON ==
  /\ Budget
  /\ \E status \in {200}, len \in {1} :
       Commit(sendJSON(Env, status, len), "sendJSON", STREAM_ENDED)
  /\ UNCHANGED << method, httpVersionMajor, sse, fileSender >>

Redirect ==
  /\ Budget
  /\ Commit(redirect(Env, "/x"), "redirect", STREAM_ENDED)
  /\ UNCHANGED << method, httpVersionMajor, sse, fileSender >>

Write ==
  /\ Budget
  /\ Commit(write(Env), "write", "promise")
  /\ UNCHANGED << method, httpVersionMajor, sse, fileSender >>

End ==
  /\ Budget
  /\ Commit(end(Env), "end", STREAM_ENDED)
  /\ UNCHANGED << method, httpVersionMajor, sse, fileSender >>

PipeFrom ==
  /\ Budget
  /\ Commit(pipeFrom(Env), "pipeFrom", "promise")
  /\ UNCHANGED << method, httpVersionMajor, sse, fileSender >>

SendSSE ==
  /\ Budget
  /\ \E retry \in RetryInputs :
       LET e == sendSSE(Env, retry) IN
       /\ Commit(e, IF retry # << >> /\ (retry[1].type # "number" \/ retry[1].num < 0)
                    THEN "sendSSE:invalidRetry" ELSE "sendSSE", "handle")
       /\ sse' = IF e.threw THEN sse ELSE e.sse
  /\ UNCHANGED << method, httpVersionMajor, fileSender >>

SendFile ==
  /\ Budget
  /\ \E status \in {200}, headers \in HeaderInputs, prefixOrSuffix \in BOOLEAN,
        on404 \in BOOLEAN, onDir \in BOOLEAN :
       LET e == sendFile(Env, status, headers, prefixOrSuffix) IN
       /\ Commit(e, "sendFile", "promise")
       /\ fileSender' = IF e.threw THEN fileSender
                        ELSE [ fileSender EXCEPT !.waiting[<< on404, onDir >>] = @ + 1,
                                                 !.pending = @ + 1 ]
  /\ UNCHANGED << method, httpVersionMajor, sse >>

\* --------------------------------------------- Streamer: asynchronous events
\* a stream event that is no Streamer call
Event(e, name) ==
  Commit(e, name, "none")

\* a piped source emits data: dest.write(chunk)
PipeData ==
  /\ Budget
  /\ \E kind \in {"ending", "open", "file"} :
       /\ pipes[kind] > 0
       /\ Event(ResWrite(Env, IF kind = "file" THEN "file" ELSE "piped"), "source.data")
  /\ UNCHANGED << method, httpVersionMajor, sse, fileSender >>

\* a piped source ends: dest.end() unless piped with {end: false}
PipeEnd ==
  /\ Budget
  /\ \E kind \in {"ending", "open", "file"} :
       /\ pipes[kind] > 0
       /\ LET u == [Env EXCEPT !.pipes[kind] = @ - 1] IN
          Event(IF kind = "open" THEN u ELSE ResEnd(u, FALSE, ""), "source.end")
  /\ UNCHANGED << method, httpVersionMajor, sse, fileSender >>

\* a piped source fails: it is unpiped and the destination is left as it is
PipeError ==
  /\ Budget
  /\ \E kind \in {"ending", "open"} :
       /\ pipes[kind] > 0
       /\ Event([Env EXCEPT !.pipes[kind] = @ - 1], "source.error")
  /\ UNCHANGED << method, httpVersionMajor, sse, fileSender >>

\* the connection's stream closes after the response has ended
StreamClose ==
  /\ res.writableEnded /\ ~res.closed
  /\ res' = [res EXCEPT !.closed = TRUE]
  /\ UNCHANGED << method, httpVersionMajor, wire, headersSentBy, resWriteHeadCalls,
                  pipes, sse, fileSender, call, nOps >>
  /\ UNCHANGED requestVars
  /\ UNCHANGED routerVars
  /\ UNCHANGED exitVars
  /\ UNCHANGED readerVars
  /\ UNCHANGED setupVars

\* sender.on("error"): 404 goes to on404 or sendEmpty(404), the rest to sendEmpty(500)
SenderError ==
  /\ Budget
  /\ \E k \in SenderKinds, is404 \in BOOLEAN, fails \in BOOLEAN :
       /\ fileSender.waiting[k] > 0
       /\ fails => is404 /\ k[1]
       /\ LET e == sendEmpty(Env, IF is404 THEN 404 ELSE 500, EmptyHeaders) IN
          IF is404 /\ k[1]
          THEN /\ SenderEmits(k, "error:404", fails)
               /\ Commit(Env, "on404", "callback")
          ELSE /\ SenderEmits(k, IF is404 THEN "error:404" ELSE "error", e.threw)
               /\ Commit(e, "sendEmpty", STREAM_ENDED)
  /\ UNCHANGED << method, httpVersionMajor, sse >>

\* sender.on("directory"): onDir or sendEmpty(404, x-reason)
SenderDirectory ==
  /\ Budget
  /\ \E k \in SenderKinds, fails \in BOOLEAN :
       /\ fileSender.waiting[k] > 0
       /\ fails => k[2]
       /\ LET e == sendEmpty(Env, 404, Header("x-reason", "Directory listing not allowed")) IN
          IF k[2]
          THEN /\ SenderEmits(k, "directory", fails)
               /\ Commit(Env, "onDir", "callback")
          ELSE /\ SenderEmits(k, "directory", e.threw)
               /\ Commit(e, "sendEmpty", STREAM_ENDED)
  /\ UNCHANGED << method, httpVersionMajor, sse >>

\* sender.on("stream"): the file was found and the head is still unsent;
\* `send` sets its headers and pipes the file into this.writer (HEAD: ends)
SenderStream ==
  /\ Budget
  /\ ~res.headersSent
  /\ \E k \in SenderKinds :
       /\ fileSender.waiting[k] > 0
       /\ SenderEmits(k, "stream", FALSE)
       /\ LET h == ResSetHeaders(Env, Header("content-type", "file")) IN
          Event(IF method = "HEAD" THEN ResEnd(h, FALSE, "") ELSE Pipe(writer(h), "file"),
                "sender.stream")
  /\ UNCHANGED << method, httpVersionMajor, sse >>

\* the file stream fails while it is piped: `send` destroys it, which unpipes
\* it, and emits "error" with a 500; the listener calls sendEmpty(500)
SenderStreamError ==
  /\ pipes.file > 0
  /\ LET e == sendEmpty([Env EXCEPT !.pipes.file = @ - 1], 500, EmptyHeaders) IN
     /\ SenderEmits(fileSender.kind, "stream.error", e.threw)
     /\ Commit(e, "sendEmpty", STREAM_ENDED)
  /\ UNCHANGED << method, httpVersionMajor, sse >>

\* the handle of sendSSE: emitEvent(name, data, id)
SseEmitEvent ==
  /\ Budget
  /\ sse.active
  /\ \E ev \in EventInputs :
       LET e == emitEvent(Env, ev.eventName, ev.eventData, ev.eventId) IN
       /\ Commit(e, "emitEvent", "void")
       /\ sse' = IF e.threw THEN sse ELSE [e.sse EXCEPT !.emitted = Append(@, ev)]
  /\ UNCHANGED << method, httpVersionMajor, fileSender >>

\* emitComment(comment)
SseEmitComment ==
  /\ Budget
  /\ sse.active
  /\ LET e == emitComment(Env, "x") IN
     /\ Commit(e, "emitComment", "void")
     /\ sse' = e.sse
  /\ UNCHANGED << method, httpVersionMajor, fileSender >>

\* close()
SseClose ==
  /\ Budget
  /\ sse.active
  /\ Commit(close(Env), "close", "void")
  /\ sse' = IF res.writableEnded THEN sse ELSE [sse EXCEPT !.closedBy = "close"]
  /\ UNCHANGED << method, httpVersionMajor, fileSender >>

\* serverEvents.emit("exit"): the listener sendSSE subscribed is close
ServerExit ==
  /\ Budget
  /\ sse.exitListener
  /\ Event(close(Env), "exit")
  /\ sse' = IF res.writableEnded THEN sse ELSE [sse EXCEPT !.closedBy = "exit"]
  /\ UNCHANGED << method, httpVersionMajor, fileSender >>

\* the writer's "finish" event, once it has ended and its data has gone out
\* to a client that is still there: serverEvents.off("exit", close)
WriterFinish ==
  /\ res.writableEnded
  /\ sse.exitListener
  /\ ~sse.disconnected
  /\ sse' = [sse EXCEPT !.exitListener = FALSE, !.finished = TRUE]
  /\ UNCHANGED << method, httpVersionMajor, res, wire, headersSentBy, resWriteHeadCalls,
                  pipes, fileSender, call, nOps >>
  /\ UNCHANGED requestVars
  /\ UNCHANGED routerVars
  /\ UNCHANGED exitVars
  /\ UNCHANGED readerVars
  /\ UNCHANGED setupVars

NextStreamer ==
  \/ WriteHead \/ SendEmpty \/ SendString \/ SendBuffer \/ SendStream
  \/ SendSimple \/ SendJSON \/ Redirect \/ Write \/ End \/ PipeFrom
  \/ SendSSE \/ SendFile
  \/ PipeData \/ PipeEnd \/ PipeError \/ StreamClose
  \/ SenderError \/ SenderDirectory \/ SenderStream \/ SenderStreamError
  \/ SseEmitEvent \/ SseEmitComment \/ SseClose \/ ServerExit \/ WriterFinish

Spec == InitStreamer /\ [][NextStreamer]_vars

\* ------------------------------------------- parsing and construction: actions
UrlInputs == SeqsUpTo({"/", "a", "?"}, MaxUrlLen) \ { << >> }
PrefixInputs == { p \in SeqsUpTo({"/", "a"}, MaxPrefixLen) : listenOptionsCheck(p) }
HostInputs == { None, Some(<< >>), Some(<< "h" >>) }
CookieInputs == { << >>, << << "k", << "%", "2", "5" >> >> >>, << << "k", << "%" >> >> >> }

\* the response side before any Streamer exists
Untouched ==
  /\ res = FreshRes
  /\ wire = << >>
  /\ headersSentBy = Undefined
  /\ resWriteHeadCalls = 0
  /\ pipes = NoPipes
  /\ sse = NoSSE
  /\ fileSender = NoFile
  /\ call = NoCall
  /\ nOps = 0

InitParse ==
  /\ Untouched
  /\ RouterIdle
  /\ ProcessIdle
  /\ ReaderIdle
  /\ SetupIdle
  /\ method \in { "GET", "" }
  /\ httpVersionMajor \in {1, 2}
  /\ req \in [ url : UrlInputs, host : HostInputs, authority : HostInputs, cookie : CookieInputs ]
  /\ pathPrefix \in PrefixInputs
  /\ parsed = NotParsed
  /\ routePath = << >>
  /\ state = NotBuilt

\* the listener hands the request to Streamer.parseRequest
ParseRequest ==
  /\ parsed.outcome = "pending"
  /\ LET p == parseRequest(Env, req, pathPrefix) IN
     /\ parsed' = p.out
     /\ res' = p.env.res
     /\ wire' = p.env.wire
     /\ resWriteHeadCalls' = p.env.calls
  /\ UNCHANGED << method, httpVersionMajor, headersSentBy, pipes, sse, fileSender, call, nOps,
                  req, pathPrefix, routePath, state >>
  /\ UNCHANGED routerVars
  /\ UNCHANGED exitVars
  /\ UNCHANGED readerVars
  /\ UNCHANGED setupVars

\* the router builds the request state from what parseRequest returned
Construct ==
  /\ parsed.outcome = "returned"
  /\ ~state.built
  /\ state' = constructor(parsed, routePath)
  /\ UNCHANGED << method, httpVersionMajor, res, wire, headersSentBy, resWriteHeadCalls,
                  pipes, sse, fileSender, call, nOps, req, pathPrefix, parsed, routePath >>
  /\ UNCHANGED routerVars
  /\ UNCHANGED exitVars
  /\ UNCHANGED readerVars
  /\ UNCHANGED setupVars

NextParse == ParseRequest \/ Construct

SpecParse == InitParse /\ [][NextParse]_vars

\* the groups of one RouteMatch: Record<string, string | undefined>
GroupNames == { "name", "id" }
CaptureInputs == SeqsUpTo({"%", "2", "5", "x"}, MaxCapLen)
CaptureSamples == { << "x" >>, << "%", "2", "5" >>, << "%", "2", "F" >> }

GroupsOver(captures) ==
  UNION { [ D -> { None } \cup { Some(c) : c \in captures } ] : D \in SUBSET GroupNames }

Parsed == parseRequest(Env, SampleReq, << >>).out

\* one route, every capture up to MaxCapLen for "name"
InitDecode ==
  /\ Untouched
  /\ RouterIdle
  /\ ProcessIdle
  /\ ReaderIdle
  /\ SetupIdle
  /\ method = "GET"
  /\ httpVersionMajor = 1
  /\ req = SampleReq
  /\ pathPrefix = << >>
  /\ parsed = Parsed
  /\ \E c \in CaptureInputs, g \in GroupsOver(CaptureSamples) :
       routePath = << Merge(g, [k \in {"name"} |-> Some(c)]) >>
  /\ state = NotBuilt

SpecDecode == InitDecode /\ [][Construct]_vars

\* up to MaxRoutes nested routes over a few captures, one of them malformed
MergeCaptures == { << "x" >>, << "%", "2", "F" >>, << "%" >> }

InitMerge ==
  /\ Untouched
  /\ RouterIdle
  /\ ProcessIdle
  /\ ReaderIdle
  /\ SetupIdle
  /\ method = "GET"
  /\ httpVersionMajor = 1
  /\ req = SampleReq
  /\ pathPrefix = << >>
  /\ parsed = Parsed
  /\ routePath \in UNION { [ 1..n -> GroupsOver(MergeCaptures) ] : n \in 0..MaxRoutes }
  /\ state = NotBuilt

SpecMerge == InitMerge /\ [][Construct]_vars

\* ------------------------------------------------------ the router: values
\* The route tree has a fixed shape: the root, its children 2 and 3 in
\* registration order, and node 4 under node 2.  What varies is what each
\* node's method and path tests give for the request, its denyFinal flag and
\* whether it declares the requestedWithHeader security check.
RouteNodes == 1 .. 4
Children == << << 2, 3 >>, << 4 >>, << >>, << >> >>

\* The root matches everything and cannot terminate a match.
RouteTrees ==
  { t \in [ RouteNodes -> [ matches : BOOLEAN, denyFinal : BOOLEAN, requestedWith : BOOLEAN ] ] :
      t[1].matches /\ t[1].denyFinal /\ ~t[1].requestedWith }

\* the trees tried against a plain request: every outcome of the tests and
\* every placing of denyFinal, no security check declared
MatchingTrees == { t \in RouteTrees : \A n \in RouteNodes : ~t[n].requestedWith }

\* the trees tried against every request: every outcome of the tests and
\* every placing of the security check, denyFinal on the root only
CheckedTrees == { t \in RouteTrees : \A n \in RouteNodes \ { 1 } : ~t[n].denyFinal }

\* the body formats a route is tried with: two that leave the reader alone,
\* one that reads the body and one that reads and parses it
BodyFormats == { "ignore", "stream", "buffer", "json" }

\* request bodies: none, a JSON text, a text that is no JSON, one over the ceiling
Bodies == { "empty", "json", "notJSON", "oversize" }

RequestedWithInputs == { None, Some("TiddlyWiki"), Some("other") }

\* what a handler does with the state it is given
Behaviours == { "nothing", "writeHead", "returnSent", "throwSent",
                "sendError", "headThenSendError", "error" }

\* the status a handler's SendError carries (RECIPE_NOT_FOUND)
SendErrorStatus == 404

\* ------------------------------------------------------- the router: matching
\* a match that lets a denyFinal node terminate (mutant of findRouteRecursive)
RECURSIVE findRouteIgnoringDenyFinal(_, _, _)
findRouteIgnoringDenyFinal(tree, routes, i) ==
  IF i > Len(routes) THEN << >>
  ELSE IF ~tree[routes[i]].matches THEN findRouteIgnoringDenyFinal(tree, routes, i + 1)
  ELSE << routes[i] >> \o findRouteIgnoringDenyFinal(tree, Children[routes[i]], 1)

\* Depth-first walk over the siblings `routes` from index i: the first node
\* whose tests pass and that either has a matching descendant or may itself
\* terminate gives the match; a denyFinal node without a matching descendant
\* is passed over.
RECURSIVE findRouteRecursive(_, _, _)
findRouteRecursive(tree, routes, i) ==
  IF i > Len(routes) THEN << >>
  ELSE LET n == routes[i] IN
       IF ~tree[n].matches THEN findRouteRecursive(tree, routes, i + 1)
       ELSE LET inner == findRouteRecursive(tree, Children[n], 1) IN
            IF inner # << >> THEN << n >> \o inner
            ELSE IF tree[n].denyFinal THEN findRouteRecursive(tree, routes, i + 1)
            ELSE << n >>

\* the ordered list of RouteMatches from root to leaf, << >> when nothing matches
findRoute(tree) == findRouteRecursive(tree, << 1 >>, 1)

\* the body format that takes precedence: GET and HEAD requests have no body to prepare
winningBodyFormat(declared) ==
  IF method \in { "GET", "HEAD" } THEN "ignore" ELSE declared

\* ------------------------------------------------------ the router: handlers
\* what a handler call leaves behind: the response, and how the call came out
HandlerResult(e, r) ==
  [ env |-> [e EXCEPT !.threw = FALSE], result |-> IF e.threw THEN "throw:Error" ELSE r ]

\* a handler that keeps going after the sentinel (mutant of handler)
handlerNoSentinel(e, b) ==
  CASE b = "nothing" -> HandlerResult(e, "return:undefined")
    [] b = "writeHead" -> HandlerResult(writeHead(e, 200, EmptyHeaders), "return:undefined")
    [] b = "returnSent" -> HandlerResult(sendEmpty(e, 200, EmptyHeaders), "return:undefined")
    [] b = "throwSent" -> HandlerResult(sendEmpty(e, 405, EmptyHeaders), "return:undefined")
    [] b = "sendError" -> HandlerResult(e, "throw:SendError")
    [] b = "headThenSendError" -> HandlerResult(writeHead(e, 200, EmptyHeaders), "throw:SendError")
    [] b = "error" -> HandlerResult(e, "throw:Error")

\* one handler of the matched path, by what it does:
\*   nothing            async state => { }
\*   writeHead          state.writeHead(200); return
\*   returnSent         return state.sendEmpty(200)
\*   throwSent          throw state.sendEmpty(405, {})
\*   sendError          throw new SendError("RECIPE_NOT_FOUND", 404, ...)
\*   headThenSendError  state.writeHead(200); throw new SendError(...)
\*   error              throw new Error()
handler(e, b) ==
  CASE b = "nothing" -> HandlerResult(e, "return:undefined")
    [] b = "writeHead" -> HandlerResult(writeHead(e, 200, EmptyHeaders), "return:undefined")
    [] b = "returnSent" -> HandlerResult(sendEmpty(e, 200, EmptyHeaders), "return:STREAM_ENDED")
    [] b = "throwSent" -> HandlerResult(sendEmpty(e, 405, EmptyHeaders), "throw:STREAM_ENDED")
    [] b = "sendError" -> HandlerResult(e, "throw:SendError")
    [] b = "headThenSendError" -> HandlerResult(writeHead(e, 200, EmptyHeaders), "throw:SendError")
    [] b = "error" -> HandlerResult(e, "throw:Error")

\* state.sendAdmin({status, serverResponse}): serveIndex sends the index page
sendAdmin(e, status) == sendBuffer(e, status, Header("content-type", "text/html"), Bytes(1))

\* a recovery handler without the instanceof test and without the headersSent
\* test (mutant of routeRecovery)
routeRecoveryRendersAll(e, thrown) ==
  HandlerResult(sendAdmin(e, SendErrorStatus), "throw:STREAM_ENDED")

\* the recovery handler a route registers (the wiki index route's): a SendError
\* is rendered through sendAdmin while the headers are unsent and logged
\* otherwise, then the sentinel is thrown; anything else is thrown again.
routeRecovery(e, thrown) ==
  IF thrown = "throw:SendError"
  THEN IF e.res.headersSent
       THEN HandlerResult([e EXCEPT !.log = Append(@, << "SendError", SendErrorStatus >>)],
                          "throw:STREAM_ENDED")
       ELSE HandlerResult(sendAdmin(e, SendErrorStatus), "throw:STREAM_ENDED")
  ELSE HandlerResult(e, thrown)

\* the router's own catch: the error is logged; while the headers are unsent a
\* SendError is rendered as its JSON with its status, anything else as a 500.
defaultRecovery(e, thrown, status) ==
  LET l == [e EXCEPT !.log = Append(@, << thrown, status >>)] IN
  IF l.res.headersSent THEN l
  ELSE [ sendJSON(l, IF thrown = "throw:SendError" THEN status ELSE 500, 1) EXCEPT !.threw = FALSE ]

\* ------------------------------------------------- the router: preparation
\* a body preparation without the ceiling (mutant of prepareBody)
prepareBodyNoCeiling(bodyFormat, body) ==
  IF bodyFormat \in { "ignore", "stream" } THEN "untouched"
  ELSE IF bodyFormat = "json" /\ body # "json" THEN "400"
  ELSE "read"

\* phase 4 for the winning body format: the reader is left alone, or the body
\* is read under the ceiling (413 over it) and, for json, parsed (400 on error)
prepareBody(bodyFormat, body) ==
  IF bodyFormat \in { "ignore", "stream" } THEN "untouched"
  ELSE IF body = "oversize" THEN "413"
  ELSE IF bodyFormat = "json" /\ body # "json" THEN "400"
  ELSE "read"

\* no registered token (mutant of AllowedRequestedWithHeaderKeys)
NoRequestedWithHeaderKeys == { }

\* Router.allowedRequestedWithHeaders after registerRequest.ts has run
AllowedRequestedWithHeaderKeys == { "TiddlyWiki" }

\* phase 5: every requestedWithHeader check a node of the matched path declares
\* passes iff X-Requested-With is one of the registered tokens
securityChecks(tree, matched, requestedWith) ==
  (\E i \in 1 .. Len(matched) : tree[matched[i]].requestedWith)
     => requestedWith \in { Some(t) : t \in AllowedRequestedWithHeaderKeys }

\* ------------------------------------------------------- the router: actions
\* a router that goes on to the next handler after the sentinel (mutant of
\* afterHandler)
afterHandlerGoesOn(e, r, registered, last) ==
  [ env |-> e, outcome |-> IF last THEN "completed" ELSE "pending",
    phase |-> IF last THEN "done" ELSE "handle", error |-> << >>,
    recovery |-> "none", rethrown |-> FALSE ]

\* how the router goes on after a handler call that came out as r
afterHandler(e, r, registered, last) ==
  LET none == [ env |-> e, outcome |-> "pending", phase |-> "handle", error |-> << >>,
                recovery |-> "none", rethrown |-> FALSE ]
  IN
  CASE r \in { "return:STREAM_ENDED", "throw:STREAM_ENDED" } ->
         [ none EXCEPT !.outcome = "completed", !.phase = "done" ]
    [] r = "return:undefined" /\ ~last -> none
    [] r = "return:undefined" /\ last /\ e.res.writableEnded ->
         [ none EXCEPT !.outcome = "completed", !.phase = "done" ]
    [] r = "return:undefined" /\ last /\ ~e.res.writableEnded ->
         [ none EXCEPT !.env = defaultRecovery(e, "throw:SendError", 500),
                       !.outcome = "dropped", !.phase = "done",
                       !.error = << "REQUEST_DROPPED", 500 >>, !.recovery = "default" ]
    [] r \in { "throw:SendError", "throw:Error" } /\ ~registered ->
         [ none EXCEPT !.env = defaultRecovery(e, r, SendErrorStatus),
                       !.outcome = "failed", !.phase = "done",
                       !.error = << r, IF r = "throw:SendError" THEN SendErrorStatus ELSE 500 >>,
                       !.recovery = "default" ]
    [] r \in { "throw:SendError", "throw:Error" } /\ registered ->
         LET rr == routeRecovery(e, r) IN
         IF rr.result = "throw:STREAM_ENDED"
         THEN [ none EXCEPT !.env = rr.env, !.outcome = "failed", !.phase = "done",
                            !.error = << r, SendErrorStatus >>, !.recovery = "route" ]
         ELSE [ none EXCEPT !.env = defaultRecovery(rr.env, "throw:Error", 500),
                            !.outcome = "failed", !.phase = "done",
                            !.error = << r, 500 >>, !.recovery = "route",
                            !.rethrown = TRUE ]

\* the response and the call record after the router (or a handler it called)
\* has acted on the response as e says
Respond(e, op, r) ==
  /\ res' = e.res
  /\ wire' = e.wire
  /\ headersSentBy' = e.by
  /\ resWriteHeadCalls' = e.calls
  /\ pipes' = e.pipes
  /\ call' = [ op |-> op, ret |-> r,
               sentBefore |-> res.headersSent, endedBefore |-> res.writableEnded,
               closedBefore |-> res.closed,
               resWriteHead |-> e.calls > resWriteHeadCalls,
               headersChanged |-> e.res.headers # res.headers,
               log |-> e.log ]
  /\ UNCHANGED << method, httpVersionMajor, sse, fileSender, nOps, req, pathPrefix, parsed,
                  rootRoute, incoming >>
  /\ UNCHANGED exitVars
  /\ UNCHANGED readerVars
  /\ UNCHANGED setupVars

InitRoute ==
  /\ Untouched
  /\ method \in { "GET", "POST" }
  /\ httpVersionMajor = 1
  /\ req = SampleReq
  /\ pathPrefix = << >>
  /\ parsed = Parsed
  /\ routePath = << >>
  /\ state = NotBuilt
  /\ incoming \in [ requestedWith : RequestedWithInputs, body : Bodies ]
  /\ incoming.body = "empty" <=> method = "GET"
  /\ \/ rootRoute \in MatchingTrees /\ method = "GET" /\ incoming = NoIncoming
     \/ rootRoute \in CheckedTrees
  /\ dispatch = [ Idle EXCEPT !.phase = "match" ]
  /\ ProcessIdle
  /\ ReaderIdle
  /\ SetupIdle

\* phase 3, and phase 8 when nothing matches: the fallback's default sends 404
Match ==
  /\ dispatch.phase = "match"
  /\ LET m == findRoute(rootRoute) IN
     IF m = << >>
     THEN /\ Respond(sendEmpty(Env, 404, EmptyHeaders), "request.fallback", STREAM_ENDED)
          /\ dispatch' = [ dispatch EXCEPT !.phase = "done", !.outcome = "fallback" ]
          /\ UNCHANGED << routePath, state >>
     ELSE /\ \E declared \in BodyFormats :
               dispatch' = [ dispatch EXCEPT !.phase = "body", !.matched = m,
                                             !.bodyFormat = winningBodyFormat(declared) ]
          /\ routePath' = [ i \in 1 .. Len(m) |-> EmptyHeaders ]
          /\ state' = constructor(parsed, routePath')
          /\ Respond(Env, "match", "none")

\* phase 4: the body is left alone, or read, bounded by the ceiling, and parsed
PrepareBody ==
  /\ dispatch.phase = "body"
  /\ LET p == prepareBody(dispatch.bodyFormat, incoming.body) IN
     CASE p = "untouched" ->
            /\ dispatch' = [ dispatch EXCEPT !.phase = "security" ]
            /\ Respond(Env, "body", "none")
       [] p = "read" ->
            /\ dispatch' = [ dispatch EXCEPT !.phase = "security", !.readerRead = TRUE,
                                             !.hasData = TRUE ]
            /\ Respond(Env, "body", "none")
       [] p \in { "413", "400" } ->
            /\ dispatch' = [ dispatch EXCEPT !.phase = "done", !.outcome = "refused",
                                             !.readerRead = TRUE ]
            /\ Respond(sendEmpty(Env, IF p = "413" THEN 413 ELSE 400, EmptyHeaders),
                       "body", STREAM_ENDED)
  /\ UNCHANGED << routePath, state >>

\* phase 5: the checks the nodes of the matched path declare
SecurityChecks ==
  /\ dispatch.phase = "security"
  /\ IF securityChecks(rootRoute, dispatch.matched, incoming.requestedWith)
     THEN /\ dispatch' = [ dispatch EXCEPT !.phase = "handle" ]
          /\ Respond(Env, "security", "none")
     ELSE /\ dispatch' = [ dispatch EXCEPT !.phase = "done", !.outcome = "forbidden" ]
          /\ Respond(sendEmpty(Env, 403, EmptyHeaders), "security", STREAM_ENDED)
  /\ UNCHANGED << routePath, state >>

\* phases 6 and 7: the next handler of the matched path runs, and the router
\* deals with how it came out
InvokeHandler ==
  /\ dispatch.phase = "handle"
  /\ \E b \in Behaviours, registered \in BOOLEAN :
       LET k == Len(dispatch.invoked) + 1
           h == handler(Env, b)
           a == afterHandler(h.env, h.result, registered, k = Len(dispatch.matched))
       IN /\ dispatch' = [ dispatch EXCEPT
                 !.phase = a.phase, !.outcome = a.outcome, !.error = a.error,
                 !.recovery = a.recovery, !.rethrown = a.rethrown,
                 !.invoked = Append(@, dispatch.matched[k]),
                 !.results = Append(@, h.result),
                 !.sentAtThrow = h.env.res.headersSent,
                 !.wireAtThrow = h.env.wire ]
          /\ Respond(a.env, "handler", h.result)
  /\ UNCHANGED << routePath, state >>

NextRoute == Match \/ PrepareBody \/ SecurityChecks \/ InvokeHandler

SpecRoute == InitRoute /\ [][NextRoute]_vars

\* ---------------------------------------------------------- shutdown: values
MaxSignals == 2
MaxListeners == 2
MaxOthers == 2

\* the listeners of the "exit" event, by who subscribed
ListenerHandler(l) == [ kind |-> "listener", id |-> l ]
SseHandler == [ kind |-> "sse", id |-> 0 ]
OtherHandler(k) == [ kind |-> "other", id |-> k ]

\* the "exit" listeners in the order of their serverEvents.on calls: every
\* listener subscribes in its constructor, other services (ctx.dispose) subscribe
\* at startup, before or after the listeners, and an SSE stream subscribes when
\* its request is served, which is after all of them
Registrations(nListeners, nOthers, othersFirst, stream) ==
  LET ls == [ i \in 1 .. nListeners |-> ListenerHandler(i) ]
      os == [ i \in 1 .. nOthers |-> OtherHandler(i) ]
  IN (IF othersFirst THEN os \o ls ELSE ls \o os)
     \o (IF stream THEN << SseHandler >> ELSE << >>)

\* the Streamer of a request that has called sendSSE() and keeps the stream open
FreshEnv == [ res |-> FreshRes, wire |-> << >>, by |-> Undefined, calls |-> 0,
              pipes |-> NoPipes, sse |-> NoSSE, log |-> << >>, threw |-> FALSE ]
OpenStream == sendSSE(FreshEnv, << >>)

\* --------------------------------------------------- shutdown: the listener
\* this.server.close(resolve): the server stops accepting; its callback comes
\* when the connections it has are gone
serverClose(server) == [server EXCEPT !.listening = FALSE, !.closeRequests = @ + 1]

\* ---------------------------------------------------- shutdown: the event bus
\* one "exit" listener is called: what it does before it returns, and whether
\* what it returned is still pending.  st is the emit, the servers and the
\* stream's Streamer.
callHandler(st, h) ==
  LET called == [st EXCEPT !.emit.invoked = Append(@, h)] IN
  CASE h.kind = "listener" ->
         [called EXCEPT !.servers[h.id] = serverClose(@), !.emit.pending = @ \cup { h }]
    [] h.kind = "sse" ->
         [called EXCEPT !.env = close(@),
                        !.env.sse.closedBy = IF st.env.res.writableEnded THEN @ ELSE "exit"]
    [] h.kind = "other" ->
         [called EXCEPT !.emit.pending = @ \cup { h }]

\* an emitAsync that calls every listener at once and waits for all of them
\* (mutant of emitAsync)
RECURSIVE emitAsyncAllAtOnce(_)
emitAsyncAllAtOnce(st) ==
  IF Len(st.emit.invoked) < Len(st.emit.queue)
  THEN emitAsyncAllAtOnce(callHandler(st, st.emit.queue[Len(st.emit.invoked) + 1]))
  ELSE IF st.emit.pending # { } THEN st
  ELSE [st EXCEPT !.emit.status = IF st.emit.errors = << >> THEN "resolved" ELSE "rejected"]

\* emitAsync(name) from where it stands: while the listener called last is
\* pending it waits; otherwise it calls the next one, and after the last one it
\* resolves, or rejects with the failures it has collected
RECURSIVE emitAsync(_)
emitAsync(st) ==
  IF st.emit.pending # { } THEN st
  ELSE IF Len(st.emit.invoked) < Len(st.emit.queue)
  THEN emitAsync(callHandler(st, st.emit.queue[Len(st.emit.invoked) + 1]))
  ELSE [st EXCEPT !.emit.status = IF st.emit.errors = << >> THEN "resolved" ELSE "rejected"]

\* the promise of listener h settles, and emitAsync goes on
settle(st, h, failed) ==
  emitAsync([st EXCEPT !.emit.pending = @ \ { h },
                       !.emit.errors = IF failed THEN Append(@, h) ELSE @])

\* ------------------------------------------------------- shutdown: exiter
\* a forced-exit timer that keeps the event loop alive (mutant of setTimeoutUnref)
setTimeoutRef(timer) == [timer EXCEPT !.armed = @ + 1, !.ref = TRUE]

\* setTimeout(..., 5000).unref()
setTimeoutUnref(timer) == [timer EXCEPT !.armed = @ + 1, !.ref = FALSE]

\* if (exiting) return;
alreadyExiting(flag) == flag

\* what the event loop still waits for: a listening or closing server, an open
\* connection, a pending listener of the emit, a ref'd timer, anything else
EventLoopBusy ==
  \/ \E l \in DOMAIN servers : ~servers[l].closed \/ servers[l].connections > 0
  \/ bus.emit.pending # { }
  \/ exitTimer.armed > 0 /\ exitTimer.ref /\ ~exitTimer.fired
  \/ process.lingering

\* the emit, the servers and the stream as they stand
Standing == [ emit |-> bus.emit, servers |-> servers, env |-> Env ]

\* the state after the exit listeners ran as st says; the catch of exiter logs
\* a rejected emit
Shutdown(st, op) ==
  /\ bus' = [bus EXCEPT !.emit = st.emit,
                        !.emits = IF op = "exiter" THEN @ + 1 ELSE @]
  /\ servers' = st.servers
  /\ process' = [process EXCEPT !.log =
        IF st.emit.status = "rejected" /\ bus.emit.status # "rejected"
        THEN Append(@, "Error in exit events:") ELSE @]
  /\ res' = st.env.res
  /\ wire' = st.env.wire
  /\ headersSentBy' = st.env.by
  /\ sse' = st.env.sse
  /\ call' = IF st.env.res = res THEN call
             ELSE [ NoCall EXCEPT !.op = "exit", !.sentBefore = res.headersSent ]
  /\ UNCHANGED << method, httpVersionMajor, resWriteHeadCalls, pipes, fileSender, nOps >>
  /\ UNCHANGED requestVars
  /\ UNCHANGED routerVars
  /\ UNCHANGED readerVars
  /\ UNCHANGED setupVars

InitExit ==
  /\ method = "GET"
  /\ httpVersionMajor = 1
  /\ fileSender = NoFile
  /\ call = NoCall
  /\ nOps = 0
  /\ req = SampleReq
  /\ pathPrefix = << >>
  /\ parsed = NotParsed
  /\ routePath = << >>
  /\ state = NotBuilt
  /\ RouterIdle
  /\ ReaderIdle
  /\ SetupIdle
  /\ exiting = FALSE
  /\ exitTimer = NoTimer
  /\ signals = 0
  /\ \E nListeners \in 1 .. MaxListeners, nOthers \in 0 .. MaxOthers,
        othersFirst \in BOOLEAN, stream \in BOOLEAN, lingering \in BOOLEAN :
       /\ nOthers = 0 => ~othersFirst
       /\ bus = [ NoBus EXCEPT !.handlers = Registrations(nListeners, nOthers, othersFirst, stream) ]
       /\ servers = [ l \in 1 .. nListeners |->
                        [ listening |-> TRUE, closeRequests |-> 0, closed |-> FALSE,
                          connections |-> IF stream /\ l = 1 THEN 1 ELSE 0 ] ]
       /\ process = [ Running EXCEPT !.lingering = lingering ]
       /\ LET e == IF stream THEN OpenStream ELSE FreshEnv IN
          /\ res = e.res
          /\ wire = e.wire
          /\ headersSentBy = e.by
          /\ resWriteHeadCalls = e.calls
          /\ pipes = e.pipes
          /\ sse = e.sse

\* a signal arrives: exiter(signal) up to its await
Exiter ==
  /\ process.alive
  /\ signals < MaxSignals
  /\ signals' = signals + 1
  /\ IF alreadyExiting(exiting)
     THEN UNCHANGED << exiting, exitTimer, process, bus, servers, res, wire, headersSentBy,
                       sse, call, method, httpVersionMajor, resWriteHeadCalls, pipes,
                       fileSender, nOps, requestVars, routerVars, readerVars,
                       setupVars >>
     ELSE /\ exiting' = TRUE
          /\ exitTimer' = setTimeoutUnref(exitTimer)
          /\ Shutdown(emitAsync([ Standing EXCEPT
                 !.emit = [ NoEmit EXCEPT !.status = "running", !.queue = bus.handlers ] ]),
                      "exiter")

\* the request's own code is done with the stream: handle.close()
StreamDone ==
  /\ process.alive
  /\ sse.active /\ ~res.writableEnded
  /\ LET e == close(Env) IN
     /\ res' = e.res
     /\ wire' = e.wire
     /\ headersSentBy' = e.by
     /\ sse' = [e.sse EXCEPT !.closedBy = "close"]
     /\ call' = [ NoCall EXCEPT !.op = "close", !.sentBefore = res.headersSent ]
  /\ UNCHANGED << method, httpVersionMajor, resWriteHeadCalls, pipes, fileSender, nOps >>
  /\ UNCHANGED exitVars
  /\ UNCHANGED readerVars
  /\ UNCHANGED setupVars
  /\ UNCHANGED requestVars
  /\ UNCHANGED routerVars
  /\ UNCHANGED readerVars
  /\ UNCHANGED setupVars

\* the response of the stream has ended: its connection goes
CanConnectionEnd == process.alive /\ res.writableEnded /\ ~res.closed
ConnectionEnds ==
  /\ CanConnectionEnd
  /\ res' = [res EXCEPT !.closed = TRUE]
  /\ servers' = [servers EXCEPT ![1].connections = @ - 1]
  /\ UNCHANGED << method, httpVersionMajor, wire, headersSentBy, resWriteHeadCalls, pipes, sse,
                  fileSender, call, nOps, exiting, exitTimer, process, bus, signals >>
  /\ UNCHANGED requestVars
  /\ UNCHANGED routerVars
  /\ UNCHANGED readerVars
  /\ UNCHANGED setupVars

\* a server that was asked to close has no connection left: the callback of
\* close runs, which resolves the promise its exit listener awaits
CanServerClose(l) ==
  /\ process.alive
  /\ servers[l].closeRequests > 0 /\ ~servers[l].closed /\ servers[l].connections = 0
ServerClosed ==
  \E l \in DOMAIN servers :
    /\ CanServerClose(l)
    /\ Shutdown(settle([ Standing EXCEPT !.servers[l].closed = TRUE ],
                       ListenerHandler(l), FALSE), "server.close")
    /\ UNCHANGED << exiting, exitTimer, signals >>

\* the promise of another exit listener settles, either way, whenever it does
OtherSettles ==
  /\ process.alive
  /\ \E h \in bus.emit.pending, failed \in BOOLEAN :
       /\ h.kind = "other"
       /\ Shutdown(settle(Standing, h, failed), "settled")
  /\ UNCHANGED << exiting, exitTimer, signals >>

\* nothing keeps the event loop alive: node exits, with code 0
CanProcessEnd == process.alive /\ ~EventLoopBusy
ProcessEnds ==
  /\ CanProcessEnd
  /\ process' = [process EXCEPT !.alive = FALSE, !.code = 0]
  /\ UNCHANGED << method, httpVersionMajor, res, wire, headersSentBy, resWriteHeadCalls, pipes,
                  sse, fileSender, call, nOps, exiting, exitTimer, bus, servers, signals >>
  /\ UNCHANGED requestVars
  /\ UNCHANGED routerVars
  /\ UNCHANGED readerVars
  /\ UNCHANGED setupVars

\* the 5 seconds are over and the process is still there: process.exit(0).
\* Closing a connection, the callback of close and the end of the process take
\* no such time: the timer does not come before them.
TimerFires ==
  /\ process.alive
  /\ exitTimer.armed > 0 /\ ~exitTimer.fired
  /\ ~CanConnectionEnd /\ ~CanProcessEnd /\ \A l \in DOMAIN servers : ~CanServerClose(l)
  /\ exitTimer' = [exitTimer EXCEPT !.fired = TRUE]
  /\ process' = [process EXCEPT !.alive = FALSE, !.code = 0, !.forced = TRUE,
                                !.log = Append(@, "Server exit timeout reached, forcing exit.")]
  /\ UNCHANGED << method, httpVersionMajor, res, wire, headersSentBy, resWriteHeadCalls, pipes,
                  sse, fileSender, call, nOps, exiting, bus, servers, signals >>
  /\ UNCHANGED requestVars
  /\ UNCHANGED routerVars
  /\ UNCHANGED readerVars
  /\ UNCHANGED setupVars

NextExit ==
  \/ Exiter \/ StreamDone \/ ConnectionEnds \/ ServerClosed \/ OtherSettles \/ ProcessEnds \/ TimerFires

SpecExit == InitExit /\ [][NextExit]_vars

\* what node's event loop and its timers guarantee: steps that are due are taken
SpecExitLive ==
  /\ SpecExit
  /\ WF_vars(ConnectionEnds) /\ WF_vars(ServerClosed) /\ WF_vars(ProcessEnds)
  /\ WF_vars(TimerFires)

\* ------------------------------------------------------- multipart: values
MaxParts == 2
MaxChunks == 2
MaxRead == 2

\* a Content-Type header: its media type and its boundary parameter
MultipartMedia == { "multipart/form-data", "multipart/mixed" }
ContentTypes ==
  { None } \cup
  { Some([ media |-> m, boundary |-> b ]) :
      m \in { "", "text/plain" } \cup MultipartMedia, b \in { None, Some("x") } }

\* !contentType: the header is absent or the empty string
absent(contentType) ==
  \/ contentType = None
  \/ contentType[1].media = "" /\ contentType[1].boundary = None

isMultipartRequestHeader(contentType) == contentType[1].media \in MultipartMedia
getMultipartBoundary(contentType) == contentType[1].boundary

NoSendError == [ name |-> "", status |-> 0 ]
NewSendError(name, status) == [ name |-> name, status |-> status ]

\* what the body holds, as the parser finds it: for each part its headers,
\* the pieces of its content, its end
PartTokens(p, c) ==
  << [ kind |-> "headers", part |-> p, chunk |-> 0 ] >>
  \o [ n \in 1 .. c |-> [ kind |-> "content", part |-> p, chunk |-> n ] ]
  \o << [ kind |-> "end", part |-> p, chunk |-> 0 ] >>

RECURSIVE BodyTokens(_, _)
BodyTokens(parts, p) ==
  IF p > Len(parts) THEN << >>
  ELSE PartTokens(p, parts[p]) \o BodyTokens(parts, p + 1)

PartLists == UNION { [ 1 .. n -> 0 .. MaxChunks ] : n \in 0 .. MaxParts }

\* -------------------------------------------- multipart: readMultipartData
\* a callback of the caller is invoked; its promise is pending, and the
\* caller of the callback awaits it or lets it float
invoke(m, cb, tok, awaits) ==
  LET c == [ cb |-> cb, part |-> tok.part, chunk |-> tok.chunk ] IN
  [ m EXCEPT !.calls = Append(@, c),
             !.pending = @ \cup { c },
             !.awaited = IF awaits THEN { c } ELSE @ ]

\* part.append = async (chunk) => { await options.cbPartChunk(part, chunk) }
append(m, tok) == invoke(m, "cbPartChunk", tok, TRUE)

\* onCreatePart: installs part.append, then awaits options.cbPartStart(part)
onCreatePart(m, tok) == invoke(m, "cbPartStart", tok, TRUE)

forAwaitBodyFloating(m, tok) == invoke(m, "cbPartEnd", tok, FALSE)

\* the body of the for await loop: await options.cbPartEnd(part)
forAwaitBody(m, tok) == invoke(m, "cbPartEnd", tok, TRUE)

\* the parser takes the next thing it has found in what it has read: it
\* awaits onCreatePart at a part's headers, awaits part.append for a piece
\* of content, and yields the part at its end
parseNodeMultipartStream(m) ==
  LET tok == Head(m.buffered)
      m1 == [ m EXCEPT !.buffered = Tail(@) ] IN
  CASE tok.kind = "headers" -> onCreatePart(m1, tok)
    [] tok.kind = "content" -> append(m1, tok)
    [] tok.kind = "end" -> forAwaitBody(m1, tok)

readMultipartDataAnyBoundary(m) ==
  IF absent(m.contentType) \/ ~isMultipartRequestHeader(m.contentType)
  THEN [ m EXCEPT !.phase = "rejected",
                  !.error = NewSendError("MULTIPART_INVALID_CONTENT_TYPE", 400) ]
  ELSE [ m EXCEPT !.phase = "parsing" ]

\* readMultipartData up to the first time it waits for the parser
readMultipartData(m) ==
  IF absent(m.contentType) \/ ~isMultipartRequestHeader(m.contentType)
  THEN [ m EXCEPT !.phase = "rejected",
                  !.error = NewSendError("MULTIPART_INVALID_CONTENT_TYPE", 400) ]
  ELSE IF getMultipartBoundary(m.contentType) = None
  THEN [ m EXCEPT !.phase = "rejected",
                  !.error = NewSendError("MULTIPART_MISSING_BOUNDARY", 400) ]
  ELSE [ m EXCEPT !.phase = "parsing" ]

\* ------------------------------------------------------- multipart: actions
MultipartQuiet ==
  UNCHANGED << method, httpVersionMajor, res, wire, responseVars, requestVars,
               routerVars, exitVars, negotiation, payload, setupVars >>

InitMultipart ==
  /\ method = "POST"
  /\ httpVersionMajor = 1
  /\ Untouched
  /\ req = SampleReq
  /\ pathPrefix = << >>
  /\ parsed = NotParsed
  /\ routePath = << >>
  /\ state = NotBuilt
  /\ RouterIdle
  /\ ProcessIdle
  /\ negotiation = NoNegotiation
  /\ payload = NoPayload
  /\ SetupIdle
  /\ \E contentType \in ContentTypes, parts \in PartLists :
       multipart = [ NoMultipart EXCEPT !.phase = "ready",
                                        !.contentType = contentType,
                                        !.parts = parts,
                                        !.unread = BodyTokens(parts, 1) ]

\* the handler calls state.readMultipartData(options)
ReadMultipartData ==
  /\ multipart.phase = "ready"
  /\ multipart' = readMultipartData(multipart)
  /\ MultipartQuiet

\* the parser, waiting on nothing and with nothing left of what it has read,
\* takes the next chunk from the request stream
ReaderData ==
  /\ multipart.phase = "parsing"
  /\ multipart.awaited = { }
  /\ multipart.buffered = << >>
  /\ multipart.unread # << >>
  /\ \E k \in 1 .. MaxRead :
       /\ k <= Len(multipart.unread)
       /\ multipart' = [ multipart EXCEPT
            !.buffered = SubSeq(multipart.unread, 1, k),
            !.unread = SubSeq(multipart.unread, k + 1, Len(multipart.unread)),
            !.reads = @ + 1 ]
  /\ MultipartQuiet

\* the parser goes on with what it has read
ParserStep ==
  /\ multipart.phase = "parsing"
  /\ multipart.awaited = { }
  /\ multipart.buffered # << >>
  /\ multipart' = parseNodeMultipartStream(multipart)
  /\ MultipartQuiet

\* the promise a callback returned settles; a rejection of an awaited
\* promise goes up through the parser and rejects readMultipartData
CallbackSettles ==
  /\ multipart.phase = "parsing"
  /\ \E c \in multipart.pending, failed \in BOOLEAN :
       multipart' = [ multipart EXCEPT
         !.pending = @ \ { c },
         !.awaited = @ \ { c },
         !.phase = IF failed /\ c \in multipart.awaited THEN "rejected" ELSE @,
         !.error = IF failed /\ c \in multipart.awaited
                   THEN NewSendError("callback", 0) ELSE @ ]
  /\ MultipartQuiet

\* the request stream has ended and every part has been yielded
ParserDone ==
  /\ multipart.phase = "parsing"
  /\ multipart.awaited = { }
  /\ multipart.buffered = << >>
  /\ multipart.unread = << >>
  /\ multipart' = [ multipart EXCEPT !.phase = "resolved" ]
  /\ MultipartQuiet

NextMultipart ==
  \/ ReadMultipartData
  \/ ReaderData
  \/ ParserStep
  \/ CallbackSettles
  \/ ParserDone

SpecMultipart == InitMultipart /\ [][NextMultipart]_vars

\* ---------------------------------------------------- content encoding: values
Encodings == { "br", "gzip", "deflate", "identity" }
Offered == { "gzip", "identity" }

\* Accept-Encoding as the quality it gives each encoding: "none" when the
\* header does not name it, "0" for q=0, "1" otherwise
AcceptInputs == [ Encodings -> { "none", "0", "1" } ]

\* the whitelists a caller passes: encodings in the server's order
WhitelistInputs ==
  { w \in SeqsUpTo(Offered, 2) : \A i, j \in 1 .. Len(w) : i # j => w[i] # w[j] }

\* the Streamer's compressor field: the constructor's assignment is commented
\* out and the field is readonly, so it is undefined in every Streamer
compressor == Undefined

\* Compressor.getEncodingMethod: zero-q encodings dropped, the first of the
\* whitelist the client takes, identity otherwise
RECURSIVE getEncodingMethod(_, _)
getEncodingMethod(accept, whitelist) ==
  IF whitelist = << >> THEN "identity"
  ELSE IF accept[Head(whitelist)] = "1"
          \/ (accept[Head(whitelist)] = "none" /\ Head(whitelist) = "identity")
       THEN Head(whitelist)
       ELSE getEncodingMethod(accept, Tail(whitelist))

\* acceptsEncoding(encoding): this.compressor?.getEncodingMethod(encoding)
acceptsEncoding(c, accept, whitelist) ==
  IF c = Undefined THEN Undefined ELSE getEncodingMethod(accept, whitelist)

\* --------------------------------------------------- content encoding: actions
InitEncoding ==
  /\ method \in Methods
  /\ httpVersionMajor = 1
  /\ Untouched
  /\ req = SampleReq
  /\ pathPrefix = << >>
  /\ parsed = NotParsed
  /\ routePath = << >>
  /\ state = NotBuilt
  /\ RouterIdle
  /\ ProcessIdle
  /\ multipart = NoMultipart
  /\ payload = NoPayload
  /\ SetupIdle
  /\ \E accept \in AcceptInputs, whitelist \in WhitelistInputs :
       negotiation = [ NoNegotiation EXCEPT !.phase = "ready",
                                            !.accept = accept,
                                            !.whitelist = whitelist ]

\* the handler calls state.acceptsEncoding(whitelist)
AcceptsEncoding ==
  /\ negotiation.phase = "ready"
  /\ negotiation' = [ negotiation EXCEPT
       !.phase = "done",
       !.result = acceptsEncoding(compressor, negotiation.accept, negotiation.whitelist) ]
  /\ UNCHANGED << method, httpVersionMajor, res, wire, responseVars, requestVars,
                  routerVars, exitVars, multipart, payload, setupVars >>

NextEncoding == AcceptsEncoding

SpecEncoding == InitEncoding /\ [][NextEncoding]_vars

\* ------------------------------------------------- sending a body: actions
MaxBody == 2

PayloadInputs ==
  { [ kind |-> "string", status |-> status, lengthGiven |-> given, data |-> data,
      encoding |-> encoding ] :
      status \in { 200, 304 }, given \in BOOLEAN,
      data \in SeqsUpTo(Characters, MaxBody), encoding \in BufferEncodings }
  \cup
  { [ kind |-> "buffer", status |-> status, lengthGiven |-> given, data |-> Bytes(n),
      encoding |-> "utf8" ] :
      status \in { 200, 304 }, given \in BOOLEAN, n \in 0 .. MaxBody }

\* the headers the caller passes: nothing, or a content-length of its own
CallerHeaders == IF payload.lengthGiven THEN Header("content-length", 99) ELSE EmptyHeaders

InitBody ==
  /\ method \in { "GET", "HEAD", "POST" }
  /\ httpVersionMajor \in { 1, 2 }
  /\ Untouched
  /\ req = SampleReq
  /\ pathPrefix = << >>
  /\ parsed = NotParsed
  /\ routePath = << >>
  /\ state = NotBuilt
  /\ RouterIdle
  /\ ProcessIdle
  /\ multipart = NoMultipart
  /\ negotiation = NoNegotiation
  /\ payload \in PayloadInputs
  /\ SetupIdle

\* the handler calls state.sendString(status, headers, data, encoding)
SendStringBody ==
  /\ Budget
  /\ payload.kind = "string"
  /\ Commit(sendString(Env, payload.status, CallerHeaders, payload.data, payload.encoding),
            "sendString", STREAM_ENDED)
  /\ UNCHANGED << method, httpVersionMajor, sse, fileSender >>

\* the handler calls state.sendBuffer(status, headers, data)
SendBufferBody ==
  /\ Budget
  /\ payload.kind = "buffer"
  /\ Commit(sendBuffer(Env, payload.status, CallerHeaders, payload.data),
            "sendBuffer", STREAM_ENDED)
  /\ UNCHANGED << method, httpVersionMajor, sse, fileSender >>

NextBody == SendStringBody \/ SendBufferBody \/ StreamClose

SpecBody == InitBody /\ [][NextBody]_vars

\* ------------------------------------------------ sending a stream: actions
\* the source handed to sendStream: its chunks, in the order it emits them
ChunkNames == << "b1", "b2", "b3", "b4" >>
StreamInputs ==
  { [ kind |-> "stream", status |-> status, lengthGiven |-> FALSE,
      data |-> SubSeq(ChunkNames, 1, n), encoding |-> "utf8" ] :
      status \in { 200, 304 }, n \in 0 .. MaxBody }

InitStream ==
  /\ method \in { "GET", "HEAD", "POST" }
  /\ httpVersionMajor \in { 1, 2 }
  /\ Untouched
  /\ req = SampleReq
  /\ pathPrefix = << >>
  /\ parsed = NotParsed
  /\ routePath = << >>
  /\ state = NotBuilt
  /\ RouterIdle
  /\ ProcessIdle
  /\ multipart = NoMultipart
  /\ negotiation = NoNegotiation
  /\ payload \in StreamInputs
  /\ SetupIdle

\* the handler calls state.sendStream(status, headers, stream), the first
\* call made on this response
SendStreamSource ==
  /\ call = NoCall
  /\ Commit(sendStream(Env, payload.status, EmptyHeaders), "sendStream", STREAM_ENDED)
  /\ UNCHANGED << method, httpVersionMajor, sse, fileSender >>

\* the piped source emits its next chunk: dest.write(chunk)
SourceData ==
  /\ pipes.ending > 0
  /\ pipes.read < Len(payload.data)
  /\ Event(ResWrite([Env EXCEPT !.pipes.read = @ + 1], payload.data[pipes.read + 1]),
           "source.data")
  /\ UNCHANGED << method, httpVersionMajor, sse, fileSender >>

\* the piped source has emitted everything and ends: dest.end()
SourceEnd ==
  /\ pipes.ending > 0
  /\ pipes.read = Len(payload.data)
  /\ Event(ResEnd([Env EXCEPT !.pipes.ending = @ - 1], FALSE, ""), "source.end")
  /\ UNCHANGED << method, httpVersionMajor, sse, fileSender >>

\* the piped source fails: it is unpiped and the response is left as it is
SourceError ==
  /\ pipes.ending > 0
  /\ Event([Env EXCEPT !.pipes.ending = @ - 1], "source.error")
  /\ UNCHANGED << method, httpVersionMajor, sse, fileSender >>

NextStream == SendStreamSource \/ SourceData \/ SourceEnd \/ SourceError \/ StreamClose

SpecStream == InitStream /\ [][NextStream]_vars

\* ------------------------------------------------------------------ listeners
\* startListening (index.ts) and the listener classes (listeners.ts).
MaxEntries == 2

DefaultPort == 8080
StartupExitCode == 4
NaN == [ nan |-> TRUE, n |-> 0 ]
Num(n) == [ nan |-> FALSE, n |-> n ]

\* the value of a decimal digit
DigitChars == << "0", "1", "2", "3", "4", "5", "6", "7", "8", "9" >>
IsDigit(c) == \E i \in 1 .. 10 : DigitChars[i] = c
DigitValue(c) == (CHOOSE i \in 1 .. 10 : DigitChars[i] = c) - 1
AllDigits(s) == \A i \in 1 .. Len(s) : IsDigit(s[i])

RECURSIVE Decimal(_)
Decimal(s) ==
  IF s = << >> THEN 0
  ELSE 10 * Decimal(SubSeq(s, 1, Len(s) - 1)) + DigitValue(s[Len(s)])

\* +port: the empty string is 0, digits with an optional sign are their value,
\* every other string is NaN
ToNumber(s) ==
  IF AllDigits(s) THEN Num(Decimal(s))
  ELSE IF s[1] = "-" /\ Len(s) > 1 /\ AllDigits(Tail(s)) THEN Num(0 - Decimal(Tail(s)))
  ELSE NaN

\* the truthiness of +port
TruthyNumber(s) == ~ToNumber(s).nan /\ ToNumber(s).n # 0

\* a port argument that ignores the configured number (mutant of listenArgument)
listenArgumentAlwaysDefault(port) ==
  IF port = << << "0" >> >> THEN [ given |-> FALSE, n |-> 0 ]
  ELSE [ given |-> TRUE, n |-> DefaultPort ]

\* the port handed to server.listen: undefined, +port or 8080
listenArgument(port) ==
  IF port = << << "0" >> >> THEN [ given |-> FALSE, n |-> 0 ]
  ELSE IF port # << >> /\ port[1] # << >> /\ TruthyNumber(port[1])
       THEN [ given |-> TRUE, n |-> ToNumber(port[1]).n ]
  ELSE [ given |-> TRUE, n |-> DefaultPort ]

\* net.Server.listen(port, host): no port or port 0 lets the system choose,
\* a port outside 0 .. 65535 throws ERR_SOCKET_BAD_PORT
serverListen(arg) ==
  IF ~arg.given \/ arg.n = 0 THEN [ threw |-> FALSE, any |-> TRUE, port |-> 0 ]
  ELSE IF arg.n \in 1 .. 65535 THEN [ threw |-> FALSE, any |-> FALSE, port |-> arg.n ]
  ELSE [ threw |-> TRUE, any |-> FALSE, port |-> 0 ]

\* new ListenerBase(server, router, bindInfo, options): subscribes to "exit",
\* installs the request and error handlers, then listens
ListenerBase(scheme, options) ==
  LET l == serverListen(listenArgument(options.port))
  IN [ scheme |-> scheme,
       bindInfo |-> << scheme, "localhost", options.port, options.prefix >>,
       subscribed |-> TRUE,
       listening |-> ~l.threw,
       any |-> l.any,
       port |-> l.port,
       threw |-> l.threw ]

\* the files that exist on disk
Files == { "k", "c" }
existsSync(f) == f \in Files

\* one entry of the options array as the caller wrote it
BaseEntry ==
  [ port |-> << >>, prefix |-> << >>, key |-> << >>, cert |-> << >>,
    secureServerOptions |-> FALSE, unknownKey |-> FALSE ]

\* the prefix after .transform(prefix => prefix || "")
transformPrefix(prefix) == IF prefix = << >> THEN << >> ELSE prefix[1]

\* listenOptionsCheck on one entry (z.object(...).strict())
entryCheck(entry) ==
  /\ ~entry.unknownKey
  /\ listenOptionsCheck(transformPrefix(entry.prefix))

\* the .map callback of startListening up to the constructor call
Present(o) == o # << >> /\ o[1] # ""
options2(entry, envPort) ==
  [ port |-> IF entry.port # << >> THEN entry.port
             ELSE IF envPort # << >> THEN envPort
             ELSE << << "8", "0", "8", "0" >> >>,
    prefix |-> transformPrefix(entry.prefix) ]

\* what one entry does: "pair" (key without cert), "file" (key or cert file
\* missing), or a listener
construct(entry, envPort) ==
  IF Present(entry.key) # Present(entry.cert) THEN [ failed |-> "pair", made |-> << >> ]
  ELSE IF entry.secureServerOptions \/ (Present(entry.key) /\ Present(entry.cert))
  THEN IF ~entry.secureServerOptions
          /\ ~(Present(entry.key) /\ existsSync(entry.key[1])
               /\ Present(entry.cert) /\ existsSync(entry.cert[1]))
       THEN [ failed |-> "file", made |-> << >> ]
       ELSE LET l == ListenerBase("HTTPS", options2(entry, envPort))
            IN [ failed |-> IF l.threw THEN "port" ELSE "none", made |-> << l >> ]
  ELSE LET l == ListenerBase("HTTP", options2(entry, envPort))
       IN [ failed |-> IF l.threw THEN "port" ELSE "none", made |-> << l >> ]

\* listenerCheck.data.map(...): the entries are constructed one after another and
\* the first throw ends the loop
RECURSIVE mapEntries(_, _, _)
mapEntries(entries, envPort, made) ==
  IF entries = << >> THEN [ threw |-> "none", made |-> made ]
  ELSE LET c == construct(Head(entries), envPort)
       IN IF c.failed # "none" THEN [ threw |-> c.failed, made |-> made \o c.made ]
          ELSE mapEntries(Tail(entries), envPort, made \o c.made)

\* a startListening that validates each entry as it comes to it (mutant of
\* startListening)
startListeningLazyCheck(options, envPort) ==
  LET firstBad == IF \A i \in 1 .. Len(options) : entryCheck(options[i]) THEN Len(options) + 1
                  ELSE CHOOSE i \in 1 .. Len(options) :
                         ~entryCheck(options[i]) /\ \A j \in 1 .. i - 1 : entryCheck(options[j])
      m == mapEntries(SubSeq(options, 1, firstBad - 1), envPort, << >>)
  IN IF m.threw = "none" /\ firstBad <= Len(options)
     THEN [ threw |-> "schema", made |-> m.made ]
     ELSE m

\* startListening(router, options)
startListening(options, envPort) ==
  IF ~\A i \in 1 .. Len(options) : entryCheck(options[i])
  THEN [ threw |-> "schema", made |-> << >> ]
  ELSE mapEntries(options, envPort, << >>)

\* a handler that treats every listen error as fatal (mutant of onServerError)
onServerErrorAlwaysFatal(st, l, error) ==
  IF error.syscall # "listen" THEN [ st EXCEPT !.uncaught = << error >> ]
  ELSE [ st EXCEPT !.stderr = Append(@, << st.made[l].bindInfo, error.code >>),
                   !.exitCode = << StartupExitCode >> ]

\* this.server.on('error', ...)
onServerError(st, l, error) ==
  IF error.syscall # "listen" THEN [ st EXCEPT !.uncaught = << error >> ]
  ELSE IF error.code = "EACCES"
  THEN [ st EXCEPT !.stderr = Append(@, << st.made[l].bindInfo, "requires elevated privileges" >>),
                   !.exitCode = << StartupExitCode >> ]
  ELSE IF error.code = "EADDRINUSE"
  THEN [ st EXCEPT !.stderr = Append(@, << st.made[l].bindInfo, "is already in use" >>),
                   !.exitCode = << StartupExitCode >> ]
  ELSE [ st EXCEPT !.uncaught = << error >> ]

PortInputs ==
  { << >> } \cup { << s >> : s \in { << >>, << "0" >>, << "8" >>, << "8", "0" >>, << "0", "0" >>,
                                     << "x" >>, << "-", "8" >>, << "8", "x" >> } }
PrefixOptions ==
  { << >> } \cup { << s >> : s \in { << >>, << "/", "a" >>, << "a" >>, << "/", "a", "/" >>, << "/" >> } }
KeyInputs == { << >>, << "k" >>, << "m" >> }
CertInputs == { << >>, << "c" >>, << "m" >> }
EntryInputs ==
  { [ BaseEntry EXCEPT !.port = p ] : p \in PortInputs }
  \cup { [ BaseEntry EXCEPT !.prefix = p ] : p \in PrefixOptions }
  \cup { [ BaseEntry EXCEPT !.key = k, !.cert = c ] : k \in KeyInputs, c \in CertInputs }
  \cup { [ BaseEntry EXCEPT !.secureServerOptions = TRUE ],
         [ BaseEntry EXCEPT !.unknownKey = TRUE ] }
EnvPorts == { << >>, << << "8", "8" >> >> }
Syscalls == { "listen", "accept" }
ErrorCodes == { "EACCES", "EADDRINUSE", "ECONNRESET" }

Started(by, options, envPort, r) ==
  [ phase |-> "started", by |-> by, options |-> options, envPort |-> envPort, threw |-> r.threw,
    made |-> r.made, stderr |-> << >>, exitCode |-> << >>, uncaught |-> << >>,
    error |-> << >> ]

InitListen ==
  /\ method = "GET"
  /\ httpVersionMajor = 1
  /\ Untouched
  /\ req = SampleReq
  /\ pathPrefix = << >>
  /\ parsed = NotParsed
  /\ routePath = << >>
  /\ state = NotBuilt
  /\ RouterIdle
  /\ ProcessIdle
  /\ ReaderIdle
  /\ startup = NoStartup
  /\ jar = NoJar
  /\ bodyRead = NoBodyRead
  /\ admin = NoAdmin
  /\ registration = NoRegistration

ListenQuiet ==
  UNCHANGED << method, httpVersionMajor, res, wire, responseVars, requestVars,
               routerVars, exitVars, readerVars, jar, bodyRead, admin, registration >>

\* a caller runs startListening(router, options)
StartListening ==
  /\ startup.phase = "idle"
  /\ \E options \in SeqsUpTo(EntryInputs, MaxEntries), envPort \in EnvPorts :
       startup' = Started("startListening", options, envPort, startListening(options, envPort))
  /\ ListenQuiet

\* a caller constructs one listener itself: new ListenerHTTP(router, config)
NewListener ==
  /\ startup.phase = "idle"
  /\ \E port \in PortInputs :
       LET config == [ port |-> port, prefix |-> << >> ]
           l == ListenerBase("HTTP", config)
       IN startup' = Started("new", << >>, << >>,
                             [ threw |-> IF l.threw THEN "port" ELSE "none", made |-> << l >> ])
  /\ ListenQuiet

\* the server of one listener emits "error"
ServerError ==
  /\ startup.phase = "started"
  /\ \E l \in 1 .. Len(startup.made), syscall \in Syscalls, code \in ErrorCodes :
       LET error == [ syscall |-> syscall, code |-> code ]
       IN startup' = [ onServerError(startup, l, error) EXCEPT
                         !.phase = "errored", !.error = << l, error >> ]
  /\ ListenQuiet

NextListen == StartListening \/ NewListener \/ ServerError

SpecListen == InitListen /\ [][NextListen]_vars

\* ------------------------------------------------------------------ cookies
\* Streamer.setCookie and Streamer.appendHeader on the Set-Cookie header of a
\* response whose head has not been sent.
MaxCookies == 2

\* encodeURIComponent on the characters used here: letters stay, ";" and " "
\* are percent-encoded
encodeChar(c) == IF c = ";" THEN "%3B" ELSE IF c = " " THEN "%20" ELSE c
encodeURIComponent(s) == [ i \in 1 .. Len(s) |-> encodeChar(s[i]) ]

\* Date.prototype.toUTCString()
toUTCString(date) == << "UTC", date >>

\* an option is falsy when it is missing, "", 0 or false
NoOptions ==
  [ domain |-> << >>, path |-> << >>, expires |-> << >>, maxAge |-> << >>,
    secure |-> << >>, httpOnly |-> << >>, sameSite |-> << >> ]
TruthyString(o) == o # << >> /\ o[1] # ""
TruthyNumberOption(o) == o # << >> /\ o[1] # 0
TruthyFlag(o) == o # << >> /\ o[1]

\* res.getHeader(name) / res.setHeader(name, value) for Set-Cookie: the header is
\* missing, one string, or an array of strings
NoHeader == [ kind |-> "none", values |-> << >> ]

\* an appendHeader that replaces the header (mutant of appendHeader)
appendHeaderReplaces(current, value) == [ kind |-> "string", values |-> << value >> ]

\* appendHeader(name, value)
appendHeader(current, value) ==
  IF current.kind # "none"
  THEN IF current.kind = "array"
       THEN [ kind |-> "array", values |-> Append(current.values, value) ]
       ELSE [ kind |-> "array", values |-> << current.values[1], value >> ]
  ELSE [ kind |-> "string", values |-> << value >> ]

\* the cookie string of setCookie(name, value, options), as its pieces
cookieString(name, value, options) ==
  << << name, "=", encodeURIComponent(value) >> >>
  \o (IF TruthyString(options.domain) THEN << << "Domain", options.domain[1] >> >> ELSE << >>)
  \o (IF TruthyString(options.path) THEN << << "Path", options.path[1] >> >> ELSE << >>)
  \o (IF options.expires # << >>
      THEN << << "Expires", toUTCString(options.expires[1]) >> >> ELSE << >>)
  \o (IF TruthyNumberOption(options.maxAge) THEN << << "Max-Age", options.maxAge[1] >> >> ELSE << >>)
  \o (IF TruthyFlag(options.secure) THEN << << "Secure" >> >> ELSE << >>)
  \o (IF TruthyFlag(options.httpOnly) THEN << << "HttpOnly" >> >> ELSE << >>)
  \o (IF TruthyString(options.sameSite) THEN << << "SameSite", options.sameSite[1] >> >> ELSE << >>)

\* setCookie(name, value, options)
setCookie(j, name, value, options) ==
  [ calls |-> Append(j.calls, [ name |-> name, value |-> value, options |-> options ]),
    header |-> appendHeader(j.header, cookieString(name, value, options)) ]

CookieNames == { "sid", "lang" }
CookieValues == { << "a" >>, << "a", ";", " " >> }
CookieOptions ==
  { NoOptions,
    [ NoOptions EXCEPT !.domain = << "d.example" >> ],
    [ NoOptions EXCEPT !.path = << "/" >> ],
    [ NoOptions EXCEPT !.expires = << "date" >> ],
    [ NoOptions EXCEPT !.maxAge = << 0 >> ],
    [ NoOptions EXCEPT !.maxAge = << 60 >> ],
    [ NoOptions EXCEPT !.secure = << TRUE >> ],
    [ NoOptions EXCEPT !.secure = << FALSE >>, !.httpOnly = << TRUE >> ],
    [ NoOptions EXCEPT !.sameSite = << "Lax" >> ],
    [ domain |-> << "d.example" >>, path |-> << "/" >>, expires |-> << "date" >>,
      maxAge |-> << 60 >>, secure |-> << TRUE >>, httpOnly |-> << TRUE >>,
      sameSite |-> << "Strict" >> ] }

InitCookie ==
  /\ method = "GET"
  /\ httpVersionMajor = 1
  /\ Untouched
  /\ req = SampleReq
  /\ pathPrefix = << >>
  /\ parsed = NotParsed
  /\ routePath = << >>
  /\ state = NotBuilt
  /\ RouterIdle
  /\ ProcessIdle
  /\ ReaderIdle
  /\ SetupIdle

\* a handler calls state.setCookie(name, value, options)
SetCookie ==
  /\ Len(jar.calls) < MaxCookies
  /\ ~res.headersSent
  /\ \E name \in CookieNames, value \in CookieValues, options \in CookieOptions :
       jar' = setCookie(jar, name, value, options)
  /\ UNCHANGED << method, httpVersionMajor, res, wire, responseVars, requestVars, routerVars,
                  exitVars, readerVars, startup, bodyRead, admin, registration >>

NextCookie == SetCookie

SpecCookie == InitCookie /\ [][NextCookie]_vars

\* ------------------------------------------------------------------ sendAdmin
\* The two senders of the admin page (setupDevServer.ts): sendProdServer and
\* sendDevServer, and serveIndex, which both use.
IndexOptionInputs == { << >>, << 200 >>, << 403 >> }
indexBuffer == Bytes(1)
IndexHeaders == Header("content-type", "text/html; charset=utf-8")

\* serveIndex up to its await of make_index_file; the sendBuffer follows when
\* the file has been read
serveIndex(a, status) == [ a EXCEPT !.jobs = Append(@, status) ]

\* sendProdServer(state, indexOptions), without the sendFile it ends with
sendProdServer(a, indexOptions) ==
  LET started == IF indexOptions # << >> THEN serveIndex(a, indexOptions[1]) ELSE a
  IN [ started EXCEPT !.sender = "prod", !.indexOptions = indexOptions ]

\* sendDevServer(state, indexOptions) up to its first await that is left
\* pending; rebuildFails: rebuild() rejected with an error that is no build error
sendDevServer(a, indexOptions, rebuildFails) ==
  LET b == [ a EXCEPT !.sender = "dev", !.indexOptions = indexOptions ]
  IN IF rebuildFails THEN [ b EXCEPT !.failed = @ + 1 ]
     ELSE IF indexOptions # << >> THEN serveIndex(b, indexOptions[1])
     ELSE [ b EXCEPT !.proxy = "pending" ]

InitAdmin ==
  /\ method \in Methods
  /\ httpVersionMajor \in { 1, 2 }
  /\ Untouched
  /\ req = SampleReq
  /\ pathPrefix = << >>
  /\ parsed = NotParsed
  /\ routePath = << >>
  /\ state = NotBuilt
  /\ RouterIdle
  /\ ProcessIdle
  /\ ReaderIdle
  /\ SetupIdle

AdminQuiet ==
  UNCHANGED << method, httpVersionMajor, sse, nOps, requestVars, routerVars, exitVars,
               readerVars, startup, jar, bodyRead, registration >>

\* a handler calls the production sender: serveIndex is started when
\* indexOptions is given, and sendFile is called in either case
SendProdServer ==
  /\ admin.sender = "none"
  /\ \E indexOptions \in IndexOptionInputs :
       /\ Apply(sendFile(Env, 200, EmptyHeaders, FALSE), "sendFile", "promise")
       /\ admin' = sendProdServer(admin, indexOptions)
  /\ fileSender' = [ fileSender EXCEPT !.waiting[<< TRUE, TRUE >>] = @ + 1, !.pending = @ + 1 ]
  /\ AdminQuiet

\* a handler calls the dev-server sender
SendDevServer ==
  /\ admin.sender = "none"
  /\ \E indexOptions \in IndexOptionInputs, document \in BOOLEAN, rebuildFails \in BOOLEAN :
       /\ rebuildFails => document
       /\ admin' = sendDevServer(admin, indexOptions, rebuildFails)
  /\ UNCHANGED << res, wire, responseVars >>
  /\ AdminQuiet

\* make_index_file of one serveIndex call resolves: state.sendBuffer(status, ...)
IndexReady ==
  /\ \E i \in 1 .. Len(admin.jobs) :
       LET e == sendBuffer(Env, admin.jobs[i], IndexHeaders, indexBuffer) IN
       /\ Apply(e, "serveIndex", STREAM_ENDED)
       /\ admin' = [ admin EXCEPT
                       !.jobs = SubSeq(@, 1, i - 1) \o SubSeq(@, i + 1, Len(@)),
                       !.served = Append(@, [ status |-> admin.jobs[i], threw |-> e.threw ]),
                       !.failed = IF e.threw THEN @ + 1 ELSE @ ]
  /\ UNCHANGED fileSender
  /\ AdminQuiet

\* the sender of sendProdServer finds no file, or a directory: on404 and onDir
\* are sendIndex, which starts serveIndex with status 200
AdminNotFound ==
  /\ admin.sender = "prod"
  /\ fileSender.waiting[<< TRUE, TRUE >>] > 0
  /\ \E event \in { "error:404", "directory" } :
       /\ SenderEmits(<< TRUE, TRUE >>, event, FALSE)
       /\ Apply(Env, IF event = "directory" THEN "onDir" ELSE "on404", "callback")
  /\ admin' = serveIndex(admin, 200)
  /\ AdminQuiet

\* the sender fails otherwise (also when `send` finds the head already sent):
\* sendEmpty(500)
AdminSenderError ==
  /\ admin.sender = "prod"
  /\ fileSender.waiting[<< TRUE, TRUE >>] > 0
  /\ LET e == sendEmpty(Env, 500, EmptyHeaders) IN
     /\ SenderEmits(<< TRUE, TRUE >>, "error", e.threw)
     /\ Apply(e, "sendEmpty", STREAM_ENDED)
  /\ UNCHANGED admin
  /\ AdminQuiet

\* the dev server answers the proxied request: its fallback page becomes the
\* index, a body of the fallback's length is sent as a buffer, the rest is piped
ProxyResponds ==
  /\ admin.proxy = "pending"
  /\ \E answer \in { "fallback", "sameLength", "other" }, statusCode \in StatusInputs :
       IF answer = "fallback"
       THEN /\ admin' = [ serveIndex(admin, statusCode) EXCEPT !.proxy = "done" ]
            /\ UNCHANGED << res, wire, responseVars >>
       ELSE /\ admin' = [ admin EXCEPT !.proxy = "done" ]
            /\ Apply(IF answer = "sameLength"
                     THEN sendBuffer(Env, statusCode, EmptyHeaders, Bytes(1))
                     ELSE sendStream(Env, statusCode, EmptyHeaders),
                     IF answer = "sameLength" THEN "sendBuffer" ELSE "sendStream", STREAM_ENDED)
            /\ UNCHANGED << fileSender, sse, nOps >>
  /\ UNCHANGED << method, httpVersionMajor, requestVars, routerVars, exitVars,
                  readerVars, startup, jar, bodyRead, registration >>

NextAdmin ==
  \/ SendProdServer \/ SendDevServer \/ IndexReady \/ AdminNotFound \/ AdminSenderError
  \/ ProxyResponds \/ SenderStream \/ SenderStreamError
  \/ PipeData \/ PipeEnd \/ PipeError \/ StreamClose

SpecAdmin == InitAdmin /\ [][NextAdmin]_vars

\* ------------------------------------------------------------------ readBuffer
\* Streamer.readBuffer on the request stream (this.reader).
MaxBodyChunks == 2

\* the chunks a request stream emits: buffers, or strings once an encoding is set
BodyChunks ==
  { [ type |-> "buffer", data |-> Bytes(1) ], [ type |-> "buffer", data |-> Bytes(2) ],
    [ type |-> "string", data |-> << "e-acute" >> ] }

\* what the "data" listener pushes
pushed(chunk) == IF chunk.type = "string" THEN BufferFrom(chunk.data, "utf8") ELSE chunk.data

\* Buffer.concat(chunks)
RECURSIVE BufferConcat(_)
BufferConcat(chunks) ==
  IF chunks = << >> THEN << >> ELSE Head(chunks) \o BufferConcat(Tail(chunks))

\* this.reader.on('data', chunk => chunks.push(...))
onData(b, chunk) == [ b EXCEPT !.chunks = Append(@, pushed(chunk)) ]

\* this.reader.on('end', () => resolve(Buffer.concat(chunks)))
onEnd(b) == [ b EXCEPT !.promise = "resolved", !.value = BufferConcat(b.chunks) ]

InitRead ==
  /\ method = "POST"
  /\ httpVersionMajor \in { 1, 2 }
  /\ Untouched
  /\ req = SampleReq
  /\ pathPrefix = << >>
  /\ parsed = NotParsed
  /\ routePath = << >>
  /\ state = NotBuilt
  /\ RouterIdle
  /\ ProcessIdle
  /\ ReaderIdle
  /\ SetupIdle

ReadQuiet ==
  UNCHANGED << method, httpVersionMajor, res, wire, responseVars, requestVars, routerVars,
               exitVars, readerVars, startup, jar, admin, registration >>

\* a handler calls state.readBuffer(): the two listeners are attached and the
\* stream starts to flow
ReadBuffer ==
  /\ ~bodyRead.called
  /\ bodyRead' = [ bodyRead EXCEPT !.called = TRUE, !.promise = "pending" ]
  /\ ReadQuiet

\* the flowing request stream emits "data"
RequestData ==
  /\ bodyRead.called /\ ~bodyRead.ended /\ ~bodyRead.closed
  /\ Len(bodyRead.arrived) < MaxBodyChunks
  /\ \E chunk \in BodyChunks :
       bodyRead' = [ onData(bodyRead, chunk) EXCEPT !.arrived = Append(@, chunk) ]
  /\ ReadQuiet

\* the request stream emits "end": the whole body has been read
RequestEnd ==
  /\ bodyRead.called /\ ~bodyRead.ended /\ ~bodyRead.closed
  /\ bodyRead' = [ onEnd(bodyRead) EXCEPT !.ended = TRUE ]
  /\ ReadQuiet

\* the client disconnects, or the request stream fails, before the end of the
\* body: the stream is destroyed and emits "close"; no "end" follows, and
\* readBuffer has no listener for "error", "aborted" or "close"
RequestLost ==
  /\ ~bodyRead.ended /\ ~bodyRead.closed
  /\ \E why \in { "aborted", "error" } :
       bodyRead' = [ bodyRead EXCEPT !.closed = TRUE, !.lost = why ]
  /\ ReadQuiet

\* the stream closes after its end
RequestClose ==
  /\ bodyRead.ended /\ ~bodyRead.closed
  /\ bodyRead' = [ bodyRead EXCEPT !.closed = TRUE ]
  /\ ReadQuiet

NextRead == ReadBuffer \/ RequestData \/ RequestEnd \/ RequestLost \/ RequestClose

SpecRead == InitRead /\ [][NextRead]_vars

\* ------------------------------------------------------------------ SSE streams and their clients
\* a handler opens an event stream on a fresh response; the client may go away
InitSse ==
  /\ method = "GET"
  /\ httpVersionMajor \in { 1, 2 }
  /\ Untouched
  /\ req = SampleReq
  /\ pathPrefix = << >>
  /\ parsed = NotParsed
  /\ routePath = << >>
  /\ state = NotBuilt
  /\ RouterIdle
  /\ ProcessIdle
  /\ ReaderIdle
  /\ SetupIdle

\* the client of an event stream disconnects: the socket closes, the response
\* is destroyed and emits "close"; "finish" is not emitted, now or later
ClientDisconnect ==
  /\ sse.active
  /\ ~res.closed
  /\ ~sse.finished
  /\ res' = [ res EXCEPT !.closed = TRUE ]
  /\ sse' = [ sse EXCEPT !.disconnected = TRUE ]
  /\ UNCHANGED << method, httpVersionMajor, wire, headersSentBy, resWriteHeadCalls,
                  pipes, fileSender, call, nOps >>
  /\ UNCHANGED requestVars
  /\ UNCHANGED routerVars
  /\ UNCHANGED exitVars
  /\ UNCHANGED readerVars
  /\ UNCHANGED setupVars

NextSse ==
  \/ SendSSE \/ SseEmitEvent \/ SseEmitComment \/ SseClose \/ ServerExit
  \/ WriterFinish \/ ClientDisconnect \/ StreamClose

SpecSse == InitSse /\ [][NextSse]_vars

\* ------------------------------------------------------------------ route registration
\* The listener of "listen.router.init" (registerRequest.ts).
MaxHandlers == 2

\* the events the handler emits, in the order of its statements
Emissions == << "mws.router.init", "mws.routes.important", "mws.routes", "mws.routes.fallback" >>

\* rootRoute.defineRoute(...): the route becomes the last child of the root;
\* during: what was going on when it was registered
defineRoute(r, during) == [ r EXCEPT !.children = Append(@, during) ]

\* serverEvents.emitAsync(name) from where it stands: it waits while the
\* listener called last is pending, otherwise it calls the next listener,
\* which registers a route, and after the last one it resolves, or rejects
\* with the failures it has collected
emitAsyncRoutes(r) ==
  IF r.pending THEN r
  ELSE IF r.invoked < r.listeners[r.step]
  THEN [ defineRoute(r, Emissions[r.step]) EXCEPT
           !.invoked = @ + 1, !.pending = TRUE,
           !.log = Append(@, << "listener", Emissions[r.step] >>) ]
  ELSE [ r EXCEPT !.status = IF r.errors = 0 THEN "resolved" ELSE "rejected",
                  !.log = Append(@, << "settled", Emissions[r.step] >>) ]

\* serverEvents.emitAsync(Emissions[i], ...) is called
startEmit(r, i) ==
  emitAsyncRoutes([ r EXCEPT !.step = i, !.invoked = 0, !.errors = 0, !.status = "emitting",
                             !.log = Append(@, << "emit", Emissions[i] >>) ])

\* registerStatsRoute(router.rootRoute, ...): one route, when DEVSERVER is set
registerStatsRoute(r) ==
  LET s == [ r EXCEPT !.log = Append(@, << "stats", "registerStatsRoute" >>) ]
  IN IF r.devserver THEN defineRoute(s, "stats") ELSE s

\* a handler that does not await its emissions (mutant of resume)
RECURSIVE resumeWithoutAwait(_)
resumeWithoutAwait(r) ==
  IF r.status = "rejected" THEN [ r EXCEPT !.phase = "failed" ]
  ELSE IF r.step = Len(Emissions) THEN [ r EXCEPT !.phase = "done" ]
  ELSE resumeWithoutAwait(startEmit(IF r.step = 3 THEN registerStatsRoute(r) ELSE r, r.step + 1))

\* the handler from the await it stands at (registerRequest.ts:59-66): it goes
\* on when the emission has resolved, and is over when it has rejected
RECURSIVE resume(_)
resume(r) ==
  IF r.status = "emitting" THEN r
  ELSE IF r.status = "rejected" THEN [ r EXCEPT !.phase = "failed" ]
  ELSE IF r.step = Len(Emissions) THEN [ r EXCEPT !.phase = "done" ]
  ELSE resume(startEmit(IF r.step = 3 THEN registerStatsRoute(r) ELSE r, r.step + 1))

\* the handler after setupClientBuild has resolved: sendAdmin,
\* createServerRequest and helmet are set, then the first emission starts
afterClientBuild(r) ==
  resume(startEmit([ r EXCEPT !.phase = "emitting",
                              !.installed = @ \cup { "sendAdmin", "createServerRequest", "helmet" } ],
                   1))

InitRegistration ==
  /\ method = "GET"
  /\ httpVersionMajor = 1
  /\ Untouched
  /\ req = SampleReq
  /\ pathPrefix = << >>
  /\ parsed = NotParsed
  /\ routePath = << >>
  /\ state = NotBuilt
  /\ RouterIdle
  /\ ProcessIdle
  /\ ReaderIdle
  /\ SetupIdle

RegistrationQuiet ==
  UNCHANGED << method, httpVersionMajor, res, wire, responseVars, requestVars, routerVars,
               exitVars, readerVars, startup, jar, bodyRead, admin >>

\* "listen.router.init" is emitted: the handler sets router.config and awaits
\* setupClientBuild; the listeners of the mws events are those subscribed so far
RouterInit ==
  /\ registration.phase = "idle"
  /\ \E listeners \in [ 1 .. Len(Emissions) -> 0 .. MaxHandlers ], devserver \in BOOLEAN :
       registration' = [ registration EXCEPT !.phase = "building", !.listeners = listeners,
                                             !.devserver = devserver,
                                             !.installed = { "config" } ]
  /\ RegistrationQuiet

\* setupClientBuild settles
ClientBuildSettles ==
  /\ registration.phase = "building"
  /\ \E failed \in BOOLEAN :
       registration' = IF failed THEN [ registration EXCEPT !.phase = "failed" ]
                       ELSE afterClientBuild(registration)
  /\ RegistrationQuiet

\* the listener called last settles, having registered one more route or not;
\* emitAsync and then the handler go on
RegistrationListenerSettles ==
  /\ registration.phase = "emitting"
  /\ registration.pending
  /\ \E failed \in BOOLEAN, late \in BOOLEAN :
       LET r == IF late THEN defineRoute(registration, Emissions[registration.step])
                ELSE registration
       IN registration' =
            resume(emitAsyncRoutes([ r EXCEPT !.pending = FALSE,
                                              !.errors = IF failed THEN @ + 1 ELSE @ ]))
  /\ RegistrationQuiet

NextRegistration == RouterInit \/ ClientBuildSettles \/ RegistrationListenerSettles

SpecRegistration == InitRegistration /\ [][NextRegistration]_vars

\* ============================================================ claims C1 - C4
HeadCount(w) == Cardinality({ i \in 1..Len(w) : w[i][1] = "head" })

\* the calls that start with writeHead
HeadOps == { "writeHead", "sendEmpty", "sendString", "sendBuffer", "sendStream",
             "sendSimple", "sendJSON", "redirect", "sendSSE" }

LoggedWithFirstSite ==
  /\ headersSentBy \in { "writerAccess", "firstAttempt" }
  /\ call.log = << << "headersSentBy", headersSentBy >>, << "secondAttempt" >> >>

\* C2 as stated: a writeHead after the head was sent is logged with the first
\* call site and then ignored: no header is set, #res.writeHead is not reached
\* and the call does not fail.
C2_SecondAttemptIgnored ==
  (call.op \in HeadOps /\ call.sentBefore) =>
     /\ LoggedWithFirstSite
     /\ ~call.headersChanged
     /\ ~call.resWriteHead
     /\ call.ret # "threw"

\* C2 amended: a writeHead after the head was sent is logged with the first call
\* site and is then passed on to the underlying response, which refuses it: no
\* header is set, no second head is written, and the call throws; only an
\* HTTP/2 response whose stream has closed drops a writeHead without headers
\* silently.
C2_SecondAttemptRefused ==
  (call.op \in HeadOps /\ call.sentBefore) =>
     /\ LoggedWithFirstSite
     /\ ~call.headersChanged
     /\ HeadCount(wire) = 1
     /\ (call.ret = "threw" \/ (httpVersionMajor > 1 /\ call.closedBefore /\ call.resWriteHead))

C2_Witness ==
  /\ call.op = "writeHead" /\ call.sentBefore
  /\ call.resWriteHead /\ call.ret = "threw"
  /\ call.log = << << "headersSentBy", "firstAttempt" >>, << "secondAttempt" >> >>

\* the senders that return the sentinel
SentinelOps == { "sendEmpty", "sendString", "sendBuffer", "sendStream",
                 "sendSimple", "sendJSON", "redirect", "end" }

\* C3 as stated: whenever a sender or end() returns STREAM_ENDED the response
\* stream has been ended, sendStream on a non-HEAD request included.
C3_SentinelMeansEnded ==
  (call.op \in SentinelOps /\ call.ret = STREAM_ENDED) => res.writableEnded

\* C3 amended: when sendEmpty, sendString, sendBuffer, sendSimple, sendJSON,
\* redirect or end, or sendStream on a HEAD request, returns STREAM_ENDED the
\* response stream has been ended; sendStream on any other method returns it
\* with the source piped and the response not ended by the call.
C3_SentinelEndedExceptPipe ==
  (call.op \in SentinelOps /\ call.ret = STREAM_ENDED) =>
     IF call.op = "sendStream" /\ method # "HEAD"
     THEN pipes.ending >= 1 /\ (res.writableEnded <=> call.endedBefore)
     ELSE res.writableEnded

C3_Witness ==
  /\ call.op = "sendStream" /\ call.ret = STREAM_ENDED /\ method = "GET"
  /\ ~res.writableEnded /\ pipes.ending = 1

ParseDone == parsed.outcome # "pending"

Redirected ==
  /\ wire = << << "head", 302 >>, << "fin" >> >>
  /\ res.headers = Header("location", pathPrefix \o << "/" >>)
  /\ res.writableEnded
  /\ parsed.outcome = STREAM_ENDED
  /\ ~state.built

\* C6: a request whose raw url equals the non-empty prefix is answered 302 with
\* Location prefix + "/", ended, and parseRequest throws STREAM_ENDED without a
\* request state; no other raw url is answered 302.
C6_ExactPrefixRedirected ==
  ParseDone =>
    /\ (pathPrefix # << >> /\ req.url = pathPrefix) => Redirected
    /\ (wire # << >> /\ wire[1] = << "head", 302 >>) => (pathPrefix # << >> /\ req.url = pathPrefix)

C6_Witness ==
  /\ pathPrefix = << "/", "a" >> /\ req.url = << "/", "a" >> /\ Redirected

\* C7: for every request parseRequest accepts, the prefix-stripped url begins
\* with "/", whatever follows the prefix in the raw url.
C7_StrippedUrlStartsWithSlash ==
  parsed.outcome = "returned" => StartsWith(parsed.url, << "/" >>)

\* C8: a parsed request has a non-empty host; for HTTP/2 it is the :authority
\* pseudo-header; a request that would leave host empty is not parsed, and no
\* request state is built from it.
C8_HostPopulated ==
  /\ parsed.outcome = "returned" =>
       /\ parsed.host # << >>
       /\ parsed.headersHost = Some(parsed.host)
       /\ httpVersionMajor > 1 => req.authority = Some(parsed.host)
       /\ httpVersionMajor = 1 => req.host = Some(parsed.host)
  /\ state.built => state.host # << >> /\ state.host = parsed.host

C8_Witness ==
  /\ httpVersionMajor = 2 /\ req.host = None /\ req.authority = Some(<< "h" >>)
  /\ state.built /\ state.host = << "h" >>

\* =========================================================== claims C9 - C10
RawParams == reduceGroups(EmptyHeaders, routePath)

\* C9: every path parameter of a constructed request state is
\* decodeURIComponent of its raw capture, applied once (stated here for the
\* captures that decode at all).
C9_DecodedExactlyOnce ==
  state.built =>
    \A name \in DOMAIN RawParams :
       (RawParams[name] # None /\ decodeURIComponent(RawParams[name][1]).ok) =>
          state.pathParams[name] = Some(decodeURIComponent(RawParams[name][1]).val)

\* the routes of the path that declare / that captured a value for `name`
Declaring(name) == { i \in 1..Len(routePath) : name \in DOMAIN routePath[i] }
Capturing(name) == { i \in Declaring(name) : routePath[i][name] # None }
Last(S) == CHOOSE i \in S : \A j \in S : j <= i
DecodedOpt(v) == IF v = None THEN None ELSE Some(decodeURIComponent(v[1]).val)

\* C10 as stated: a name captured by several routes holds the value of the
\* innermost route that captured one; an inner route that declares the name
\* without capturing a value does not erase an outer capture.
C10_InnermostCaptureWins ==
  state.built =>
    \A name \in GroupNames :
       Capturing(name) # {} =>
          /\ name \in DOMAIN state.pathParams
          /\ LET v == routePath[Last(Capturing(name))][name]
             IN state.pathParams[name] = IF state.bugLogged THEN v ELSE DecodedOpt(v)

\* C10 amended: a name declared by several routes holds the value of the
\* innermost route that declares it (decoded, or raw when the decoding of the
\* parameters failed); when that route captured nothing the value is
\* undefined, an outer capture notwithstanding.
C10_InnermostDeclarationWins ==
  state.built =>
    /\ DOMAIN state.pathParams = { name \in GroupNames : Declaring(name) # {} }
    /\ \A name \in DOMAIN state.pathParams :
          LET v == routePath[Last(Declaring(name))][name]
          IN state.pathParams[name] = IF state.bugLogged THEN v ELSE DecodedOpt(v)

C10_Witness ==
  /\ state.built
  /\ Len(routePath) = 2
  /\ routePath[1] = [k \in {"name"} |-> Some(<< "%", "2", "F" >>)]
  /\ routePath[2] = [k \in {"name"} |-> None]
  /\ state.pathParams["name"] = None

\* ========================================================== claims C11 - C16
Sentinels == { "return:STREAM_ENDED", "throw:STREAM_ENDED" }
Dispatched == dispatch.phase = "done" /\ dispatch.invoked # << >>
LastResult == dispatch.results[Len(dispatch.results)]
AllReturnedNormally ==
  /\ Len(dispatch.results) = Len(dispatch.matched)
  /\ \A i \in 1 .. Len(dispatch.results) : dispatch.results[i] = "return:undefined"
EndedResponse(w, status) ==
  /\ HeadCount(w) = 1 /\ w[1] = << "head", status >> /\ w[Len(w)] = << "fin" >>

C12_HandlersInOrderUntilSentinel ==
  /\ Len(dispatch.invoked) <= Len(dispatch.matched)
  /\ \A i \in 1 .. Len(dispatch.invoked) : dispatch.invoked[i] = dispatch.matched[i]
  /\ \A i \in 1 .. Len(dispatch.results) :
        dispatch.results[i] \in Sentinels =>
           /\ i = Len(dispatch.results)
           /\ dispatch.phase = "done"

C12_Witness ==
  /\ dispatch.phase = "done"
  /\ dispatch.matched = << 1, 2, 4 >>
  /\ dispatch.invoked = << 1, 2 >>
  /\ dispatch.results = << "return:undefined", "throw:STREAM_ENDED" >>

DeclaresRequestedWith ==
  \E i \in 1 .. Len(dispatch.matched) : rootRoute[dispatch.matched[i]].requestedWith
RegisteredToken == incoming.requestedWith = Some("TiddlyWiki")
PastSecurity == dispatch.phase \in { "handle", "done" }

\* C14 as stated: on a route that declares requestedWithHeader a request whose
\* X-Requested-With is missing or is no registered token is answered 403 and
\* no handler is invoked; one that carries the registered token passes.
C14_MissingTokenForbidden ==
  (DeclaresRequestedWith /\ PastSecurity) =>
     IF RegisteredToken
     THEN dispatch.outcome # "forbidden"
     ELSE /\ dispatch.invoked = << >>
          /\ EndedResponse(wire, 403)

\* C14 amended: on a route that declares requestedWithHeader a request whose
\* X-Requested-With is missing or is no registered token never reaches a
\* handler, and is answered 403 unless the body preparation, which comes
\* first, has already refused it with 413 or 400; one that carries the
\* registered token passes the check.
C14_MissingTokenNeverHandled ==
  (DeclaresRequestedWith /\ PastSecurity) =>
     IF RegisteredToken
     THEN dispatch.outcome # "forbidden"
     ELSE /\ dispatch.invoked = << >>
          /\ \/ dispatch.outcome = "forbidden" /\ EndedResponse(wire, 403)
             \/ /\ dispatch.outcome = "refused"
                /\ EndedResponse(wire, 413) \/ EndedResponse(wire, 400)

C14_Witness ==
  /\ DeclaresRequestedWith /\ dispatch.phase = "done"
  /\ incoming.requestedWith = Some("other")
  /\ dispatch.outcome = "forbidden"
  /\ wire = << << "head", 403 >>, << "fin" >> >>

\* C15: the last node of a matched path is a node without denyFinal; a request
\* whose only matching nodes have denyFinal takes the fallback, 404, and no
\* handler runs.
C15_DenyFinalNeverTerminal ==
  /\ dispatch.matched # << >> =>
        ~rootRoute[dispatch.matched[Len(dispatch.matched)]].denyFinal
  /\ ((\A n \in RouteNodes : rootRoute[n].matches => rootRoute[n].denyFinal)
        /\ dispatch.phase # "match") =>
        /\ dispatch.outcome = "fallback"
        /\ dispatch.invoked = << >>
        /\ wire = << << "head", 404 >>, << "fin" >> >>

C15_Witness ==
  /\ dispatch.phase = "done" /\ dispatch.outcome = "fallback"
  /\ rootRoute[2].matches /\ rootRoute[2].denyFinal
  /\ rootRoute[4].matches /\ rootRoute[4].denyFinal
  /\ ~rootRoute[3].matches

\* C16: where the winning body format has the body read, a body over the
\* ceiling is answered 413 and, for json, a body that is not JSON is answered
\* 400, and no handler is invoked; for ignore and stream the reader is left
\* unread.
C16_BodyPreparation ==
  (dispatch.matched # << >> /\ dispatch.phase # "body") =>
     /\ dispatch.bodyFormat \in { "ignore", "stream" } => ~dispatch.readerRead
     /\ (dispatch.bodyFormat \notin { "ignore", "stream" } /\ incoming.body = "oversize") =>
           /\ EndedResponse(wire, 413)
           /\ dispatch.invoked = << >>
     /\ (dispatch.bodyFormat = "json" /\ incoming.body = "notJSON") =>
           /\ EndedResponse(wire, 400)
           /\ dispatch.invoked = << >>

C16_Witness ==
  /\ dispatch.phase = "done" /\ dispatch.outcome = "refused"
  /\ dispatch.bodyFormat = "buffer" /\ incoming.body = "oversize"
  /\ wire = << << "head", 413 >>, << "fin" >> >>
  /\ dispatch.invoked = << >>

\* ========================================================== claims C17 - C20
IsLine(line, field) == Len(line) = 2 /\ line[1] = field
LinesOf(chunk, field) == { i \in 1 .. Len(chunk) : IsLine(chunk[i], field) }
IsFrameChunk(chunk) == LinesOf(chunk, "data") # {}
FramesWritten == SelectSeq(sse.written, IsFrameChunk)
\* the frame of one emitEvent call, field by field
FrameOfCall(chunk, ev) ==
  /\ Cardinality(LinesOf(chunk, "data")) = 1
  /\ \A i \in LinesOf(chunk, "data") : chunk[i][2] = << "JSON", ev.eventData >>
  /\ chunk[Len(chunk)] = << >>
  /\ \A i \in 1 .. (Len(chunk) - 1) : chunk[i] # << >>
  /\ Cardinality(LinesOf(chunk, "event")) = (IF ev.eventName.chars = << >> THEN 0 ELSE 1)
  /\ \A i \in LinesOf(chunk, "event") : chunk[i][2] = ev.eventName.chars /\ i = 1
  /\ Cardinality(LinesOf(chunk, "id")) = (IF ev.eventId.chars = << >> THEN 0 ELSE 1)
  /\ \A i \in LinesOf(chunk, "id") : chunk[i][2] = ev.eventId.chars
HandleCall(op) == nOps' # nOps /\ call'.op = op

C18_NothingEmittedAfterClose ==
  (sse.closedBy # "none" /\ call.op \in { "emitEvent", "emitComment" } /\ call.endedBefore)
     => call.ret = "threw"

\* C19: the retry of sendSSE is a non-negative integer, and every frame carries
\* a retry field for every accepted value, 0 included; without a retry no frame
\* has the field.
C19_RetryOnEveryFrame ==
  sse.active =>
    /\ sse.retry # << >> =>
          /\ sse.retry[1].type = "number"
          /\ sse.retry[1].num >= 0
          /\ sse.retry[1].num % sse.retry[1].den = 0
    /\ \A i \in 1 .. Len(FramesWritten) :
          /\ Cardinality(LinesOf(FramesWritten[i], "retry")) = (IF sse.retry = << >> THEN 0 ELSE 1)
          /\ \A j \in LinesOf(FramesWritten[i], "retry") : FramesWritten[i][j][2] = sse.retry[1]

NoOtherHandler == \A i \in 1 .. Len(bus.handlers) : bus.handlers[i].kind # "other"
AllServersClosed == \A l \in DOMAIN servers : servers[l].closed

\* C21: when exiter runs while a listener is bound and an SSE stream is open on
\* one of its connections, the shutdown completes without the forced-exit
\* timer: the exit listener of the stream runs and closes it, the close of the
\* listener completes and emitAsync("exit") resolves.
C21_GracefulShutdownWithOpenStream ==
  (/\ sse.active /\ sse.closedBy # "close"
   /\ NoOtherHandler /\ ~process.lingering
   /\ ~process.alive) =>
     /\ ~process.forced
     /\ bus.emit.status = "resolved"
     /\ sse.closedBy = "exit"
     /\ AllServersClosed

\* C22: once exiter has started the process terminates, with code 0 and never
\* 1; the forced exit comes only where the exit listeners have not completed
\* (or something else holds the event loop): the timer keeps no process alive
\* whose exit listeners completed; a failure of an exit listener is logged.
C22_ProcessAlwaysTerminates ==
  /\ exiting ~> ~process.alive
  /\ [](~process.alive => process.code = 0)
  /\ [](process.forced => (bus.emit.status = "running" \/ process.lingering))
  /\ [](bus.emit.status = "rejected" =>
          \E i \in 1 .. Len(process.log) : process.log[i] = "Error in exit events:")

C22_Witness ==
  /\ ~process.alive /\ process.forced /\ process.code = 0
  /\ bus.emit.status = "running"
  /\ bus.emit.pending = { OtherHandler(1) }
  /\ ~process.lingering

\* C23: however many times exiter is invoked, the exit event is emitted at
\* most once, one forced-exit timer is armed, and every listener's server is
\* asked to close exactly once.
C23_ExitOnce ==
  /\ bus.emits <= 1
  /\ exitTimer.armed <= 1
  /\ \A l \in DOMAIN servers : servers[l].closeRequests <= 1
  /\ (exiting /\ ~process.alive /\ NoOtherHandler) =>
        \A l \in DOMAIN servers : servers[l].closeRequests = 1

\* C24: emitAsync calls the listeners one at a time in the order they
\* subscribed, the next one only when the one before has settled; a failure
\* does not keep the remaining ones from being called, and the failures are
\* reported together once all have run.
C24_HandlersOneAtATime ==
  LET em == bus.emit IN
  /\ Len(em.invoked) <= Len(bus.handlers)
  /\ \A i \in 1 .. Len(em.invoked) : em.invoked[i] = bus.handlers[i]
  /\ Cardinality(em.pending) <= 1
  /\ \A h \in em.pending : h = em.invoked[Len(em.invoked)]
  /\ em.status = "running" => em.pending # { }
  /\ em.status \in { "resolved", "rejected" } =>
        /\ em.invoked = bus.handlers
        /\ em.pending = { }
        /\ em.status = "rejected" <=> em.errors # << >>

C24_Witness ==
  /\ bus.emit.status = "rejected"
  /\ bus.emit.errors = << OtherHandler(1), OtherHandler(2) >>
  /\ bus.emit.invoked = << OtherHandler(1), OtherHandler(2), ListenerHandler(1) >>

\* ========================================================== claims C25 - C26
NotMultipart ==
  \/ multipart.contentType = None
  \/ multipart.contentType[1].media \notin MultipartMedia
NoBoundary == ~NotMultipart /\ multipart.contentType[1].boundary = None
Called == multipart.phase \notin { "idle", "ready" }
BodyUntouched ==
  /\ multipart.calls = << >>
  /\ multipart.reads = 0
  /\ multipart.unread = BodyTokens(multipart.parts, 1)

\* C25: readMultipartData fails with MULTIPART_INVALID_CONTENT_TYPE (400) when
\* the Content-Type header is absent or not multipart, and with
\* MULTIPART_MISSING_BOUNDARY (400) when it is multipart without a boundary;
\* in both cases no part callback is invoked and nothing of the body is read.
C25_MultipartRejected ==
  /\ (Called /\ NotMultipart) =>
       /\ multipart.phase = "rejected"
       /\ multipart.error = NewSendError("MULTIPART_INVALID_CONTENT_TYPE", 400)
       /\ BodyUntouched
  /\ (Called /\ NoBoundary) =>
       /\ multipart.phase = "rejected"
       /\ multipart.error = NewSendError("MULTIPART_MISSING_BOUNDARY", 400)
       /\ BodyUntouched

C25_Witness ==
  /\ Called /\ NoBoundary
  /\ multipart.error.name = "MULTIPART_MISSING_BOUNDARY"
  /\ Len(multipart.unread) > 1

\* the place of a callback within its part: start, the chunks in order, end
Place(c) ==
  CASE c.cb = "cbPartStart" -> 0
    [] c.cb = "cbPartChunk" -> c.chunk
    [] c.cb = "cbPartEnd" -> MaxChunks + 2

InStreamOrder(calls) ==
  \A i, j \in 1 .. Len(calls) :
    i < j => \/ calls[i].part < calls[j].part
             \/ calls[i].part = calls[j].part /\ Place(calls[i]) < Place(calls[j])

\* every part and every chunk before the last callback has had its callbacks
NothingSkipped(calls) ==
  \A i \in 1 .. Len(calls) :
    calls[i] = [ cb |-> IF BodyTokens(multipart.parts, 1)[i].kind = "headers" THEN "cbPartStart"
                        ELSE IF BodyTokens(multipart.parts, 1)[i].kind = "content" THEN "cbPartChunk"
                        ELSE "cbPartEnd",
                 part |-> BodyTokens(multipart.parts, 1)[i].part,
                 chunk |-> BodyTokens(multipart.parts, 1)[i].chunk ]

\* C26: the callbacks of readMultipartData are serialised in stream order:
\* cbPartStart of a part, then cbPartChunk for each chunk of it in order, then
\* its cbPartEnd, the parts in order; no callback is started and no further
\* chunk is read while the promise of the previous callback is unsettled.
C26_CallbacksSerialised ==
  /\ [](/\ Cardinality(multipart.pending) <= 1
        /\ InStreamOrder(multipart.calls)
        /\ NothingSkipped(multipart.calls)
        /\ multipart.phase = "resolved" =>
             /\ Len(multipart.calls) = Len(BodyTokens(multipart.parts, 1))
             /\ multipart.pending = { })
  /\ [][ (\/ Len(multipart'.calls) > Len(multipart.calls)
          \/ multipart'.reads > multipart.reads) => multipart.pending = { } ]_vars

C26_Witness ==
  /\ multipart.phase = "resolved"
  /\ Len(multipart.parts) = 2
  /\ multipart.parts[1] = 2
  /\ multipart.reads > 1

\* ================================================================ claim C27
\* a sender event of a sendFile that is the only use made of the response:
\* no head was written by a call, nothing was written but by the file's pipe
SenderEvent == fileSender'.events > fileSender.events
SoleUse ==
  /\ resWriteHeadCalls = 0
  /\ ~res.writableEnded
  /\ res.headersSent => \E i \in 1 .. Len(wire) : wire[i][1] = "body"
  /\ \A i \in 1 .. Len(wire) :
       /\ wire[i][1] # "fin"
       /\ wire[i][1] = "body" => wire[i][2] = "file"

\* the response is an empty one of this status, and the only one
EmptyResponse(status) ==
  /\ res'.headersSent /\ res'.writableEnded
  /\ res'.statusCode = status
  /\ Cardinality({ i \in 1 .. Len(wire') : wire'[i][1] = "head" }) = 1
  /\ \A i \in 1 .. Len(wire') :
       /\ wire'[i][1] # "body"
       /\ wire'[i][1] = "head" => wire'[i][2] = status

\* C27: for sendFile, an absent file invokes on404 if supplied and otherwise
\* sends an empty 404; a directory invokes onDir if supplied and otherwise
\* sends a 404 with x-reason "Directory listing not allowed"; any other
\* sender error yields an empty 500; each time one response is produced.
C27_SendFileOutcomes ==
  [][ (SenderEvent /\ SoleUse) =>
        CASE fileSender'.event = "error:404" ->
               IF fileSender'.kind[1]
               THEN call'.op = "on404" /\ wire' = wire /\ res' = res
               ELSE EmptyResponse(404)
          [] fileSender'.event = "directory" ->
               IF fileSender'.kind[2]
               THEN call'.op = "onDir" /\ wire' = wire /\ res' = res
               ELSE /\ EmptyResponse(404)
                    /\ res'.headers["x-reason"] = << "Directory listing not allowed" >>
          [] fileSender'.event \in { "error", "stream.error" } -> EmptyResponse(500)
          [] OTHER -> TRUE ]_vars

\* ================================================================ claim C28
\* C28: acceptsEncoding(whitelist) returns an encoding of the whitelist that
\* Accept-Encoding does not give q=0, identity when there is none: for
\* "identity;q=0, gzip" with gzip whitelisted it is gzip, without gzip in the
\* whitelist it is identity; the result is never undefined.
C28_NegotiatedEncoding ==
  negotiation.phase = "done" =>
    /\ negotiation.result # Undefined
    /\ \/ negotiation.result = "identity"
       \/ /\ \E i \in 1 .. Len(negotiation.whitelist) :
               negotiation.whitelist[i] = negotiation.result
          /\ negotiation.accept[negotiation.result] # "0"
    /\ (/\ negotiation.accept["identity"] = "0"
        /\ negotiation.accept["gzip"] = "1"
        /\ negotiation.whitelist = << "gzip" >>) => negotiation.result = "gzip"
    /\ (\A i \in 1 .. Len(negotiation.whitelist) : negotiation.whitelist[i] # "gzip")
         => negotiation.result = "identity"

\* ================================================================ claim C29
\* the call just made is a sendString or sendBuffer that went through
Delivered == call.op \in { "sendString", "sendBuffer" } /\ call.ret = STREAM_ENDED
BodyLength ==
  IF payload.kind = "string" THEN Len(BufferFrom(payload.data, payload.encoding))
  ELSE Len(payload.data)
BodyOnWire == Cardinality({ i \in 1 .. Len(wire) : wire[i][1] = "body" })

\* C29 as stated: sendString and sendBuffer send a content-length equal to
\* the byte length of the body, whatever the caller supplied; for HEAD they
\* send no body byte and end the response, for any other method they send
\* exactly the body bytes.
C29_ContentLengthAndBody ==
  Delivered =>
    /\ res.headers["content-length"] = << BodyLength >>
    /\ res.writableEnded
    /\ BodyOnWire = IF method = "HEAD" THEN 0 ELSE BodyLength

\* C29, amended: sendString and sendBuffer, on a response whose head is not
\* sent yet, send a content-length equal to the byte length of the body,
\* whatever the caller supplied, and end the response; they send no body byte
\* for HEAD and for a 204 or 304 status, and exactly the body bytes otherwise.
C29_ContentLengthAndBodyWhereAllowed ==
  Delivered =>
    /\ res.headers["content-length"] = << BodyLength >>
    /\ res.writableEnded
    /\ BodyOnWire = IF method = "HEAD" \/ payload.status \in { 204, 304 } THEN 0
                    ELSE BodyLength

C29_Witness ==
  /\ Delivered
  /\ payload.kind = "string" /\ payload.lengthGiven /\ payload.status = 200
  /\ method = "POST"
  /\ BodyOnWire > Len(payload.data)


\* ================================================================ claim C30
\* what of the source has reached the connection, in order
BodyTags == [ i \in 1 .. BodyOnWire |->
                wire[CHOOSE j \in 1 .. Len(wire) :
                       /\ wire[j][1] = "body"
                       /\ Cardinality({ k \in 1 .. j : wire[k][1] = "body" }) = i][2] ]
StreamSent == call.op = "sendStream" /\ call.ret = STREAM_ENDED

\* C30 as stated: sendStream on HEAD destroys the source, writes no body
\* byte and ends the response; on any other method every byte the source
\* emits reaches the response in order and the response ends when the
\* source ends.
C30_StreamPipedOrDestroyed ==
  /\ (StreamSent /\ method = "HEAD") =>
        pipes.destroyed = 1 /\ BodyOnWire = 0 /\ res.writableEnded
  /\ method # "HEAD" =>
        /\ pipes.destroyed = 0
        /\ BodyTags = SubSeq(payload.data, 1, pipes.read)
        /\ call.op = "source.end" => res.writableEnded /\ BodyTags = payload.data

\* C30, amended: sendStream, called on a response whose head has not been
\* sent, on HEAD destroys the source, writes no body byte and ends the
\* response; on any other method it pipes the source, so that with a status
\* that carries a body (not 204 or 304) every byte the source emits reaches
\* the response in order, and the response ends when the source ends.
C30_StreamPipedWhereAllowed ==
  /\ (StreamSent /\ method = "HEAD") =>
        pipes.destroyed = 1 /\ BodyOnWire = 0 /\ res.writableEnded
  /\ method # "HEAD" =>
        /\ pipes.destroyed = 0
        /\ StreamSent => pipes.ending = 1 /\ ~res.writableEnded
        /\ BodyTags = IF payload.status \in { 204, 304 } THEN << >>
                      ELSE SubSeq(payload.data, 1, pipes.read)
        /\ call.op = "source.end" =>
              /\ res.writableEnded
              /\ payload.status \notin { 204, 304 } => BodyTags = payload.data

C30_Witness ==
  /\ method = "GET" /\ payload.status = 200
  /\ call.op = "source.end" /\ res.writableEnded
  /\ Len(payload.data) = 2 /\ BodyTags = payload.data

\* ============================================================ claims C31 - C33, C37
\* (checked under SpecListen)

\* the listeners a call has made, and the port option each was constructed with
Made == 1 .. Len(startup.made)
PortOption(l) == startup.made[l].bindInfo[3]
ParsesNonZero(p) == p # << >> /\ ~ToNumber(p[1]).nan /\ ToNumber(p[1]).n # 0
ValidPort(n) == n \in 1 .. 65535

\* the port option startListening hands to the listener of entry i
Fallback(i) ==
  IF startup.options[i].port # << >> THEN startup.options[i].port
  ELSE IF startup.envPort # << >> THEN startup.envPort
  ELSE << << "8", "0", "8", "0" >> >>

\* C31 as stated: port "0" binds a port the system chooses, a string that
\* parses to a non-zero number binds that number, a missing or non-numeric
\* port binds 8080; startListening replaces a missing port by PORT, then "8080".
C31_PortChoice ==
  /\ \A l \in Made :
       LET p == PortOption(l) m == startup.made[l] IN
       /\ p = << << "0" >> >> => m.listening /\ m.any
       /\ ParsesNonZero(p) => m.listening /\ ~m.any /\ m.port = ToNumber(p[1]).n
       /\ (p = << >> \/ (p # << >> /\ ToNumber(p[1]).nan))
            => m.listening /\ ~m.any /\ m.port = 8080
  /\ \A i \in 1 .. Len(startup.options) : i \in Made => PortOption(i) = Fallback(i)

\* C31, amended: as C31, but a string that parses to a non-zero number binds
\* that number only when it is a port number (1 .. 65535), otherwise listen
\* throws and nothing is bound; every remaining port (missing, empty,
\* non-numeric, or a zero not written "0") binds 8080.
C31_PortChoiceValidPorts ==
  /\ \A l \in Made :
       LET p == PortOption(l) m == startup.made[l] IN
       /\ p = << << "0" >> >> => m.listening /\ m.any
       /\ ParsesNonZero(p) /\ ValidPort(ToNumber(p[1]).n)
            => m.listening /\ ~m.any /\ m.port = ToNumber(p[1]).n
       /\ ParsesNonZero(p) /\ ~ValidPort(ToNumber(p[1]).n) => m.threw /\ ~m.listening
       /\ p # << << "0" >> >> /\ ~ParsesNonZero(p) => m.listening /\ ~m.any /\ m.port = 8080
  /\ \A i \in 1 .. Len(startup.options) : i \in Made => PortOption(i) = Fallback(i)

\* one call made a listener on a system-chosen port and one on the port PORT names
C31_Witness ==
  /\ startup.phase = "started"
  /\ \E i, j \in Made :
       /\ startup.made[i].any /\ startup.options[i].port = << << "0" >> >>
       /\ startup.options[j].port = << >> /\ startup.made[j].port = 88

\* C32: a server error with syscall listen and code EACCES or EADDRINUSE prints
\* a diagnostic naming the bind info and exits with code 4; every other server
\* error is rethrown and leaves no exit code 4.
C32_FatalListenErrors ==
  startup.phase = "errored" =>
    LET l == startup.error[1]
        error == startup.error[2]
        fatal == error.syscall = "listen" /\ error.code \in { "EACCES", "EADDRINUSE" }
    IN /\ fatal => /\ startup.exitCode = << 4 >>
                   /\ Len(startup.stderr) = 1
                   /\ startup.stderr[1][1] = startup.made[l].bindInfo
                   /\ startup.uncaught = << >>
       /\ ~fatal => /\ startup.exitCode = << >>
                    /\ startup.stderr = << >>
                    /\ startup.uncaught = << error >>

\* a listener's server reported EADDRINUSE from listen and the process exited with 4
C32_Witness ==
  /\ startup.phase = "errored"
  /\ startup.error[2] = [ syscall |-> "listen", code |-> "EADDRINUSE" ]
  /\ startup.exitCode = << 4 >>

\* an entry the schema refuses, in the claim's words
BadPrefix(entry) ==
  /\ entry.prefix # << >>
  /\ entry.prefix[1] # << >>
  /\ \/ entry.prefix[1][1] # "/"
     \/ entry.prefix[1][Len(entry.prefix[1])] = "/"
Refused(entry) == BadPrefix(entry) \/ entry.unknownKey

\* C33: when any entry has a non-empty prefix not starting with "/", a prefix
\* ending with "/" or an unknown key, startListening throws with no listener
\* constructed; a listener made for an entry without prefix has the prefix "".
C33_OptionsRejectedWhole ==
  /\ (\E i \in 1 .. Len(startup.options) : Refused(startup.options[i]))
       => startup.threw = "schema" /\ startup.made = << >>
  /\ \A i \in 1 .. Len(startup.options) :
       i \in Made /\ startup.options[i].prefix = << >> => startup.made[i].bindInfo[4] = << >>

\* a call whose first entry is fine and whose second has a refused prefix threw
C33_Witness ==
  /\ startup.phase = "started"
  /\ Len(startup.options) = 2
  /\ ~Refused(startup.options[1])
  /\ BadPrefix(startup.options[2])
  /\ startup.threw = "schema"

\* C37: when startListening throws for an entry (schema failure, a key without
\* a cert or a cert without a key, a missing key or cert file), no listener of
\* that call is left bound or subscribed to exit.
C37_AllOrNothing ==
  startup.by = "startListening" /\ startup.threw \in { "schema", "pair", "file" } =>
    \A l \in Made : ~startup.made[l].listening /\ ~startup.made[l].subscribed

\* ============================================================ claim C34
\* (checked under SpecCookie)

\* the Set-Cookie value the claim describes for one call: name=encoded value,
\* then one attribute for every option supplied, maxAge 0 included
Supplied(o) == o # << >> /\ o[1] # ""
SuppliedFlag(o) == o # << >> /\ o[1]
SuppliedNumber(o) == o # << >>
ExpectedCookie(c) ==
  << << c.name, "=", [ i \in 1 .. Len(c.value) |->
                         IF c.value[i] = ";" THEN "%3B"
                         ELSE IF c.value[i] = " " THEN "%20" ELSE c.value[i] ] >> >>
  \o (IF Supplied(c.options.domain) THEN << << "Domain", c.options.domain[1] >> >> ELSE << >>)
  \o (IF Supplied(c.options.path) THEN << << "Path", c.options.path[1] >> >> ELSE << >>)
  \o (IF c.options.expires # << >>
      THEN << << "Expires", << "UTC", c.options.expires[1] >> >> >> ELSE << >>)
  \o (IF SuppliedNumber(c.options.maxAge)
      THEN << << "Max-Age", c.options.maxAge[1] >> >> ELSE << >>)
  \o (IF SuppliedFlag(c.options.secure) THEN << << "Secure" >> >> ELSE << >>)
  \o (IF SuppliedFlag(c.options.httpOnly) THEN << << "HttpOnly" >> >> ELSE << >>)
  \o (IF Supplied(c.options.sameSite) THEN << << "SameSite", c.options.sameSite[1] >> >> ELSE << >>)

\* C34: after n setCookie calls the response has n Set-Cookie values, in call
\* order, each name=encodeURIComponent(value) followed by one attribute for
\* every option supplied (maxAge 0 included).
C34_SetCookieValues ==
  /\ Len(jar.header.values) = Len(jar.calls)
  /\ \A i \in 1 .. Len(jar.calls) : jar.header.values[i] = ExpectedCookie(jar.calls[i])

\* ============================================================ claim C35
\* (checked under Spec)

\* all that has happened on the response is one sendFile call and one event of
\* its sender (error, directory, or stream), and the response has completed
SendFileCompleted ==
  /\ nOps = 2
  /\ fileSender.events = 1
  /\ fileSender.pending + fileSender.rejected + fileSender.resolved = 1
  /\ res.writableEnded /\ res.closed

\* C35: the promise of sendFile settles: once the response has completed it is
\* resolved, or rejected when on404 / onDir failed; it is not left pending.
C35_SendFilePromiseSettles ==
  SendFileCompleted => fileSender.pending = 0

\* ============================================================ claim C36
\* (checked under SpecAdmin)

\* file serving was started on the response
FileServingStarted == fileSender.pending + fileSender.rejected + fileSender.resolved > 0

Heads == { i \in 1 .. Len(wire) : wire[i][1] = "head" }

\* C36: a sendAdmin call with indexOptions, by either sender, starts no file
\* serving on the response, and the one response it produces is the index page
\* with the status given.
C36_IndexOnly ==
  admin.indexOptions # << >> =>
    /\ ~FileServingStarted
    /\ Cardinality(Heads) <= 1
    /\ \A i \in Heads : wire[i][2] = admin.indexOptions[1]
    /\ \A i \in 1 .. Len(admin.served) :
         admin.served[i] = [ status |-> admin.indexOptions[1], threw |-> FALSE ]

\* ============================================================ claim C38
\* (checked under SpecRead)

\* the body as it arrived, chunk after chunk, in bytes
RECURSIVE ArrivedBytes(_)
ArrivedBytes(arrived) ==
  IF arrived = << >> THEN << >>
  ELSE (IF Head(arrived).type = "string"
        THEN [ i \in 1 .. 2 * Len(Head(arrived).data) |-> "b" ]
        ELSE Head(arrived).data) \o ArrivedBytes(Tail(arrived))

\* C38: the promise of readBuffer settles: once the request stream has ended it
\* is resolved with the chunks concatenated in arrival order, and once the
\* request stream is gone without an end (client disconnect, stream error) it
\* is not left pending.
C38_ReadBufferSettles ==
  bodyRead.called =>
    /\ bodyRead.ended => bodyRead.promise = "resolved" /\ bodyRead.value = ArrivedBytes(bodyRead.arrived)
    /\ bodyRead.closed => bodyRead.promise # "pending"

\* ============================================================ claim C39
\* (checked under SpecSse)

\* the response of the event stream has finished: "finish" was emitted, or
\* the client has gone
SseFinished == sse.finished \/ sse.disconnected

\* C39: an event stream holds its subscription to "exit" exactly while its
\* response has not finished, whatever finished it: close(), exit, or the
\* client disconnecting.
C39_ExitSubscriptions ==
  sse.active => (sse.exitListener <=> ~SseFinished)

\* ============================================================ claim C40
\* (checked under SpecRegistration)

RegLog == registration.log
LogAt(kind, i) == { n \in 1 .. Len(RegLog) : RegLog[n] = << kind, Emissions[i] >> }
StatsAt == { n \in 1 .. Len(RegLog) : RegLog[n][1] = "stats" }
Before(A, B) == \A a \in A, b \in B : a < b

\* the place of a route in the order the claim gives
RouteRank(during) ==
  CASE during = "mws.router.init" -> 0
    [] during = "mws.routes.important" -> 1
    [] during = "mws.routes" -> 2
    [] during = "stats" -> 3
    [] during = "mws.routes.fallback" -> 4

\* C40: the handler of listen.router.init emits mws.router.init,
\* mws.routes.important, mws.routes and mws.routes.fallback in this order,
\* each emission settled (all its listeners called and settled) before the
\* next one starts, with the stats route between the last two; the children
\* of the root follow that order; createServerRequest and helmet are on the
\* router before the first emission.
C40_RegistrationOrder ==
  /\ \A i \in 1 .. Len(Emissions) :
       /\ Cardinality(LogAt("emit", i)) <= 1
       /\ Before(LogAt("emit", i), LogAt("listener", i))
       /\ Before(LogAt("listener", i), LogAt("settled", i))
       /\ i < Len(Emissions) =>
            /\ LogAt("emit", i + 1) # { } => LogAt("settled", i) # { }
            /\ Before(LogAt("settled", i), LogAt("emit", i + 1))
  /\ StatsAt # { } => Before(LogAt("settled", 3), StatsAt) /\ Before(StatsAt, LogAt("emit", 4))
  /\ LogAt("emit", 4) # { } => StatsAt # { }
  /\ \A j, k \in 1 .. Len(registration.children) :
       j < k => RouteRank(registration.children[j]) <= RouteRank(registration.children[k])
  /\ RegLog # << >> => { "createServerRequest", "helmet" } \subseteq registration.installed

\* all four emissions are done, and routes of the three route events and the
\* stats route are among the children, a listener having registered one late
C40_Witness ==
  /\ registration.phase = "done"
  /\ \A i \in 1 .. Len(Emissions) : LogAt("settled", i) # { }
  /\ \E j, k, l, m \in 1 .. Len(registration.children) :
       /\ j < k /\ registration.children[j] = "mws.routes.important"
       /\ registration.children[k] = "mws.routes.important"
       /\ registration.children[l] = "stats"
       /\ registration.children[m] = "mws.routes.fallback"
  /\ registration.listeners[2] = 1

====
